---- MODULE Spec2Model ----
(***************************************************************************)
(* Match-and-settlement engine of the chess betting backend:               *)
(* GameService (create / join / move), BettingService (check / lock /      *)
(* release-and-distribute) and PaymentService (deposit / withdraw) over    *)
(* the Prisma store.  Every handler is an async function: each awaited     *)
(* store operation is one atomic step, and the steps of different          *)
(* requests interleave freely (the code holds no lock and opens no         *)
(* database transaction).  ETH games add the ChessEscrow contract, the     *)
(* two registration handlers and OracleService (declareWinner and the      *)
(* retry queue with its drain loop).                                       *)
(***************************************************************************)
EXTENDS Integers, Sequences, FiniteSets, TLC

\* ------------------------------------------------------------------ bounds
NumUsers == 2
MaxProcs == 2
MaxGames == 1
MaxPly == 2
MaxDeposits == 3
MaxWithdraws == 1
MaxContractGames == 1
MaxTxs == 2
MaxTime == 9
MaxEscrowGames == 3

\* --------------------------------------------------------- program constants
PLATFORM_COMMISSION == 5
maxRetries == 3

\* ChessEscrow's parameters.  Amounts on the chain are counted in units of
\* 0.0001 ether and block.timestamp in days.
commissionBps == 500
minBetAmount == 1
maxBetAmount == 100000
joinTimeout == 1
gameTimeout == 7

NULL == 0

Users == 1 .. NumUsers
Procs == 1 .. MaxProcs
GameIds == 1 .. MaxGames
ContractIds == 1 .. MaxContractGames

\* the processQueue loop of the oracle service runs beside the requests
OracleLoop == 0
AllProcs == Procs \cup {OracleLoop}

\* wallet addresses (lower-cased); the zero address stands for a draw.
\* Every user of the model has connected a wallet, so the findFirst by
\* walletAddress of the ETH handlers finds the row.
ZeroAddress == 100
Wallet(u) == ZeroAddress + u
UserByWallet(w) == w - ZeroAddress
Wallets == {Wallet(u) : u \in Users}

\* the accounts that call the escrow: the users' wallets and one that
\* belongs to no user
Outsider == Wallet(NumUsers + 1)
Accounts == Wallets \cup {Outsider}

\* the account of the oracle service (the contract's `oracle`), the accounts
\* that send transactions to the escrow, and the escrow's own address
OracleAccount == Wallet(NumUsers + 2)
OwnerAccount == Wallet(NumUsers + 3)
Callers == Accounts \cup {OracleAccount}
EscrowAddress == ZeroAddress - 1

\* the request inputs that are enumerated
BetAmounts == {10}
DepositAmounts == {10}
WithdrawAmounts == {10}
InitialDeposit == CHOOSE a \in DepositAmounts : TRUE
CurrencyInputs == {"INTERNAL_TOKENS", "CRYPTO_ETH"}
ExternalIds == {NULL}
MoveKinds == {"illegal", "plain", "mate", "draw"}

VARIABLES
    balance,        \* User rows: balance[u][field], the stored balance columns
    transactions,   \* Transaction rows, in insertion order (row id = index)
    games,          \* Game rows (game id = index)
    moves,          \* Move rows, in insertion order
    procs,          \* the requests in flight: position and locals of each
    pre,            \* history: the store as the running request found it
                    \* (recorded in the sequential specification only)
    escrow,         \* ChessEscrow.games: the on-chain record of each contract game id
                    \* (payouts counts the executions that transferred the pot)
    chain,          \* the oracle account's declareWinner transactions, by hash
    oracle,         \* OracleService: pendingDeclarations, isProcessing, configuration
    evm,            \* the rest of the chain's state: ChessEscrow.accumulatedFees,
                    \* the ETH balance of every account, block.timestamp
    receipt         \* the last call of the escrow and its outcome (recorded
                    \* in the specification of the contract only)

ethVars == <<escrow, chain, oracle, evm, receipt>>

vars == <<balance, transactions, games, moves, procs, pre, escrow, chain, oracle,
          evm, receipt>>

\* ------------------------------------------------------------ store helpers
BalanceFields ==
    {"internalTokens", "telegramStars", "cryptoUsdt", "cryptoTon", "cryptoEth", "fiatRub"}

ZeroBalance == [f \in BalanceFields |-> 0]

RECURSIVE SumAmounts(_)
SumAmounts(s) == IF s = <<>> THEN 0 ELSE Head(s).amount + SumAmounts(Tail(s))

Tx(userId, type, amount, currency, status, gameId, externalId) ==
    [userId |-> userId, type |-> type, amount |-> amount, currency |-> currency,
     status |-> status, gameId |-> gameId, externalId |-> externalId]

\* ------------------------------------------------------------- rules engine
\* A position is what a FEN tells the code: the half-move count (which fixes
\* the side to move) and whether the position is terminal.
StartFen == [ply |-> 0, over |-> "none"]

ChessTurn(fen) == IF fen.ply % 2 = 0 THEN "w" ELSE "b"

ChessMoveLegal(fen, kind) == fen.over = "none" /\ kind # "illegal"

ChessMove(fen, kind) ==
    [ply |-> fen.ply + 1,
     over |-> CASE kind = "mate" -> "checkmate"
                [] kind = "draw" -> "draw"
                [] OTHER -> "none"]

ChessIsGameOver(fen) == fen.over # "none"

ChessIsCheckmate(fen) == fen.over = "checkmate"

determineWinner(fen, player1Id, player2Id) ==
    IF ChessIsCheckmate(fen)
        THEN (IF ChessTurn(fen) = "w" THEN player2Id ELSE player1Id)
        ELSE NULL

\* ---------------------------------------------------------- BettingService
\* checkBalance's switch: CRYPTO_ETH has no case and falls to the default.
checkBalance(userId, amount, currency) ==
    CASE currency = "INTERNAL_TOKENS" -> balance[userId].internalTokens >= amount
      [] currency = "TELEGRAM_STARS" -> balance[userId].telegramStars >= amount
      [] currency = "CRYPTO_USDT" -> balance[userId].cryptoUsdt >= amount
      [] currency = "CRYPTO_TON" -> balance[userId].cryptoTon >= amount
      [] currency = "FIAT_RUB" -> balance[userId].fiatRub >= amount
      [] OTHER -> FALSE

BettingBalanceField(currency) ==
    CASE currency = "INTERNAL_TOKENS" -> "internalTokens"
      [] currency = "TELEGRAM_STARS" -> "telegramStars"
      [] currency = "CRYPTO_USDT" -> "cryptoUsdt"
      [] currency = "CRYPTO_TON" -> "cryptoTon"
      [] currency = "FIAT_RUB" -> "fiatRub"
      [] OTHER -> "undefined"

PaymentBalanceField(currency) ==
    CASE currency = "INTERNAL_TOKENS" -> "internalTokens"
      [] currency = "TELEGRAM_STARS" -> "telegramStars"
      [] currency = "CRYPTO_USDT" -> "cryptoUsdt"
      [] currency = "CRYPTO_TON" -> "cryptoTon"
      [] currency = "CRYPTO_ETH" -> "cryptoEth"
      [] currency = "FIAT_RUB" -> "fiatRub"
      [] OTHER -> "undefined"

\* prisma.user.update({ data: { [field]: { increment: amount } } })
Increment(userId, field, amount) ==
    [balance EXCEPT ![userId][field] = @ + amount]

\* --------------------------------------------------------------- processes
Idle == [pc |-> "idle"]

Snapshot ==
    [balance |-> balance, ntx |-> Len(transactions), ngames |-> Len(games),
     games |-> games, nmoves |-> Len(moves)]

NoSnapshot ==
    [balance |-> [u \in Users |-> ZeroBalance], ntx |-> 0, ngames |-> 0,
     games |-> <<>>, nmoves |-> 0]

\* A request arrives at an idle slot.  In the sequential specification a
\* request arrives only when no other is in flight, and the store it finds
\* is recorded.
Arrive(p, seq) ==
    /\ procs[p].pc = "idle"
    /\ seq => \A q \in Procs : procs[q].pc = "idle"
    /\ pre' = IF seq THEN Snapshot ELSE pre

SetProc(p, r) == procs' = [procs EXCEPT ![p] = r]

\* The request req has returned (result "ok") or thrown (result = the
\* message).  The sequential specification keeps the answer in the slot until
\* Return; in the interleaved one the slot is free again at once.
\* A request that fails its first check changes nothing: in the interleaved
\* specification, where the answer is not kept, that is a stuttering step
\* and is left out.
Reject(p, seq, req, result) ==
    /\ seq
    /\ SetProc(p, [pc |-> "done", op |-> req.op, result |-> result, req |-> req])

Respond(p, seq, req, result) ==
    IF seq
        THEN SetProc(p, [pc |-> "done", op |-> req.op, result |-> result, req |-> req])
        ELSE SetProc(p, Idle)

InFlight(op) == Cardinality({q \in Procs : procs[q].pc \notin {"idle", "done"} /\ procs[q].op = op})

CountTx(type) == Cardinality({i \in 1 .. Len(transactions) : transactions[i].type = type})

\* A contract game id nobody has used reads as the zero struct.
NoEscrowGame ==
    [player1 |-> ZeroAddress, player2 |-> ZeroAddress, betAmount |-> 0,
     state |-> "WaitingForPlayer", winner |-> ZeroAddress, createdAt |-> 0,
     payouts |-> 0]

\* no call of the escrow has been made
NoReceipt ==
    [fn |-> "none", gameId |-> NULL, sender |-> ZeroAddress, value |-> 0,
     winner |-> ZeroAddress, ok |-> TRUE]

\* a call of the escrow and whether it went through
Receipt(fn, gameId, sender, value, winner, ok) ==
    [fn |-> fn, gameId |-> gameId, sender |-> sender, value |-> value,
     winner |-> winner, ok |-> ok]

\* Every account starts with one stake; the escrow holds nothing.
EvmInit ==
    [accumulatedFees |-> 0,
     commissionBps |-> commissionBps,
     activeGameIds |-> <<>>,
     gameIdIndex |-> [c \in ContractIds |-> 0],
     wei |-> [a \in Callers \cup {EscrowAddress} |->
                 IF a = EscrowAddress THEN 0 ELSE InitialDeposit],
     timestamp |-> 0]

\* The OracleService constructor: with ORACLE_PRIVATE_KEY unset it returns
\* before the clients exist (configured = FALSE).
EthInit(keySet) ==
    /\ escrow = [c \in ContractIds |-> NoEscrowGame]
    /\ chain = <<>>
    /\ oracle \in {[pending |-> <<>>, isProcessing |-> FALSE, configured |-> b] :
                       b \in keySet}
    /\ evm = EvmInit
    /\ receipt = NoReceipt

Init ==
    /\ balance = [u \in Users |-> ZeroBalance]
    /\ transactions = <<>>
    /\ games = <<>>
    /\ moves = <<>>
    /\ procs = [p \in AllProcs |-> Idle]
    /\ pre = NoSnapshot
    /\ EthInit({TRUE})

\* The store after every user has deposited InitialDeposit INTERNAL_TOKENS
\* (what the deposit requests below leave when each has run to its end).
InitFunded ==
    /\ balance = [u \in Users |-> [ZeroBalance EXCEPT !.internalTokens = InitialDeposit]]
    /\ transactions = [u \in Users |->
            Tx(u, "DEPOSIT", InitialDeposit, "INTERNAL_TOKENS", "COMPLETED", NULL, NULL)]
    /\ games = <<>>
    /\ moves = <<>>
    /\ procs = [p \in AllProcs |-> Idle]
    /\ pre = NoSnapshot
    /\ EthInit({TRUE})

\* ---------------------------------------------------------- PaymentService
\* deposit: the request arrives; with an externalId the first store call is
\* the findUnique that looks for an already processed notification.
DepositArrive(p, seq, userId, amount, currency, externalId) ==
    /\ Arrive(p, seq)
    /\ CountTx("DEPOSIT") + InFlight("deposit") < MaxDeposits
    /\ LET req == [pc |-> "dep_create", op |-> "deposit", userId |-> userId,
                   amount |-> amount, currency |-> currency, externalId |-> externalId]
           existing == \E i \in 1 .. Len(transactions) :
                           transactions[i].externalId = externalId
       IN  IF externalId # NULL /\ existing
               THEN Reject(p, seq, req, "Transaction already processed")
               ELSE SetProc(p, req)
    /\ UNCHANGED <<balance, transactions, games, moves>>
    /\ UNCHANGED ethVars

\* deposit's transaction.create on a store whose externalId column is not
\* unique: the row is written whatever rows exist
DepositCreateNotUnique(p, seq) ==
    /\ procs[p].pc = "dep_create"
    /\ LET r == procs[p]
       IN  /\ transactions' = Append(transactions,
                   Tx(r.userId, "DEPOSIT", r.amount, r.currency, "COMPLETED",
                      NULL, r.externalId))
           /\ SetProc(p, [r EXCEPT !.pc = "dep_balance"])
    /\ UNCHANGED <<balance, games, moves, pre>>
    /\ UNCHANGED ethVars

\* prisma.transaction.create (externalId is a unique column)
DepositCreate(p, seq) ==
    /\ procs[p].pc = "dep_create"
    /\ LET r == procs[p]
           clash == r.externalId # NULL /\
                    \E i \in 1 .. Len(transactions) : transactions[i].externalId = r.externalId
       IN  IF clash
               THEN /\ Respond(p, seq, r, "Unique constraint failed")
                    /\ UNCHANGED transactions
               ELSE /\ transactions' = Append(transactions,
                            Tx(r.userId, "DEPOSIT", r.amount, r.currency, "COMPLETED",
                               NULL, r.externalId))
                    /\ SetProc(p, [r EXCEPT !.pc = "dep_balance"])
    /\ UNCHANGED <<balance, games, moves, pre>>
    /\ UNCHANGED ethVars

\* this.updateBalance(userId, amount, currency)
DepositBalance(p, seq) ==
    /\ procs[p].pc = "dep_balance"
    /\ LET r == procs[p]
           field == PaymentBalanceField(r.currency)
       IN  IF field = "undefined"
               THEN /\ Respond(p, seq, r, "Unsupported currency")
                    /\ UNCHANGED balance
               ELSE /\ balance' = Increment(r.userId, field, r.amount)
                    /\ Respond(p, seq, r, "ok")
    /\ UNCHANGED <<transactions, games, moves, pre>>
    /\ UNCHANGED ethVars

\* withdraw: bettingService.checkBalance, then the PENDING row, the debit
\* and the update of the row to COMPLETED.
WithdrawArrive(p, seq, userId, amount, currency) ==
    /\ Arrive(p, seq)
    /\ CountTx("WITHDRAW") + InFlight("withdraw") < MaxWithdraws
    /\ LET req == [pc |-> "wd_create", op |-> "withdraw", userId |-> userId,
                   amount |-> amount, currency |-> currency, txId |-> NULL]
       IN  IF checkBalance(userId, amount, currency)
               THEN SetProc(p, req)
               ELSE Reject(p, seq, req, "Insufficient balance")
    /\ UNCHANGED <<balance, transactions, games, moves>>
    /\ UNCHANGED ethVars

WithdrawCreate(p) ==
    /\ procs[p].pc = "wd_create"
    /\ LET r == procs[p]
       IN  /\ transactions' = Append(transactions,
                   Tx(r.userId, "WITHDRAW", -r.amount, r.currency, "PENDING", NULL, NULL))
           /\ SetProc(p, [r EXCEPT !.pc = "wd_balance", !.txId = Len(transactions) + 1])
    /\ UNCHANGED <<balance, games, moves, pre>>
    /\ UNCHANGED ethVars

WithdrawBalance(p, seq) ==
    /\ procs[p].pc = "wd_balance"
    /\ LET r == procs[p]
           field == PaymentBalanceField(r.currency)
       IN  IF field = "undefined"
               THEN /\ Respond(p, seq, r, "Unsupported currency")
                    /\ UNCHANGED balance
               ELSE /\ balance' = Increment(r.userId, field, -r.amount)
                    /\ SetProc(p, [r EXCEPT !.pc = "wd_complete"])
    /\ UNCHANGED <<transactions, games, moves, pre>>
    /\ UNCHANGED ethVars

\* prisma.transaction.update({ where: { id }, data: { status: COMPLETED } })
WithdrawComplete(p, seq) ==
    /\ procs[p].pc = "wd_complete"
    /\ transactions' = [transactions EXCEPT ![procs[p].txId].status = "COMPLETED"]
    /\ Respond(p, seq, procs[p], "ok")
    /\ UNCHANGED <<balance, games, moves, pre>>
    /\ UNCHANGED ethVars

\* ------------------------------------------------------------- GameService
NewGame(playerId, betAmount, betCurrency) ==
    [player1Id |-> playerId, player2Id |-> NULL, betAmount |-> betAmount,
     betCurrency |-> betCurrency, status |-> "WAITING_PLAYER", fen |-> StartFen,
     winnerId |-> NULL, contractGameId |-> NULL, player1Wallet |-> NULL,
     player2Wallet |-> NULL, finishTxHash |-> NULL, winnerWallet |-> NULL]

\* createGame: checkBalance, lockBet (row, then debit), game.create.
\* lockBet is called without a gameId.
CreateGameArrive(p, seq, playerId, betAmount, betCurrency) ==
    /\ Arrive(p, seq)
    /\ Len(games) + InFlight("createGame") < MaxGames
    /\ LET req == [pc |-> "cg_lockTx", op |-> "createGame", userId |-> playerId,
                   amount |-> betAmount, currency |-> betCurrency, gameId |-> NULL]
       IN  IF checkBalance(playerId, betAmount, betCurrency)
               THEN SetProc(p, req)
               ELSE Reject(p, seq, req, "Insufficient balance")
    /\ UNCHANGED <<balance, transactions, games, moves>>
    /\ UNCHANGED ethVars

\* lockBet: prisma.transaction.create
LockBetTx(p, pcFrom, pcTo) ==
    /\ procs[p].pc = pcFrom
    /\ LET r == procs[p]
       IN  /\ transactions' = Append(transactions,
                   Tx(r.userId, "BET_LOCKED", -r.amount, r.currency, "COMPLETED", NULL, NULL))
           /\ SetProc(p, [r EXCEPT !.pc = pcTo])
    /\ UNCHANGED <<balance, games, moves, pre>>
    /\ UNCHANGED ethVars

\* lockBet: this.updateBalance(userId, -amount, currency)
LockBetBalance(p, pcFrom, pcTo) ==
    /\ procs[p].pc = pcFrom
    /\ LET r == procs[p]
       IN  /\ balance' = Increment(r.userId, BettingBalanceField(r.currency), -r.amount)
           /\ SetProc(p, [r EXCEPT !.pc = pcTo])
    /\ UNCHANGED <<transactions, games, moves, pre>>
    /\ UNCHANGED ethVars

CreateGameLockTx(p) == LockBetTx(p, "cg_lockTx", "cg_lockBal")

CreateGameLockBalance(p) == LockBetBalance(p, "cg_lockBal", "cg_create")

CreateGameCreate(p, seq) ==
    /\ procs[p].pc = "cg_create"
    /\ LET r == procs[p]
       IN  /\ games' = Append(games, NewGame(r.userId, r.amount, r.currency))
           /\ Respond(p, seq, [r EXCEPT !.gameId = Len(games) + 1], "ok")
    /\ UNCHANGED <<balance, transactions, moves, pre>>
    /\ UNCHANGED ethVars

\* joinGame: game.findUnique and the three checks on what it returned.
JoinGameArrive(p, seq, gameId, playerId) ==
    /\ Arrive(p, seq)
    /\ LET found == gameId <= Len(games)
           req == [pc |-> "jg_check", op |-> "joinGame", userId |-> playerId,
                   gameId |-> gameId,
                   amount |-> IF found THEN games[gameId].betAmount ELSE 0,
                   currency |-> IF found THEN games[gameId].betCurrency ELSE "none"]
           error == IF ~found THEN "Game not found"
                    ELSE IF games[gameId].status # "WAITING_PLAYER"
                        THEN "Game is not available for joining"
                    ELSE IF games[gameId].player1Id = playerId
                        THEN "Cannot join your own game"
                    ELSE "ok"
       IN  IF error = "ok"
               THEN SetProc(p, req)
               ELSE Reject(p, seq, req, error)
    /\ UNCHANGED <<balance, transactions, games, moves>>
    /\ UNCHANGED ethVars

JoinGameCheck(p, seq) ==
    /\ procs[p].pc = "jg_check"
    /\ LET r == procs[p]
       IN  IF checkBalance(r.userId, r.amount, r.currency)
               THEN SetProc(p, [r EXCEPT !.pc = "jg_lockTx"])
               ELSE Respond(p, seq, r, "Insufficient balance")
    /\ UNCHANGED <<balance, transactions, games, moves, pre>>
    /\ UNCHANGED ethVars

JoinGameLockTx(p) == LockBetTx(p, "jg_lockTx", "jg_lockBal")

JoinGameLockBalance(p) == LockBetBalance(p, "jg_lockBal", "jg_update")

JoinGameUpdate(p, seq) ==
    /\ procs[p].pc = "jg_update"
    /\ LET r == procs[p]
       IN  /\ games' = [games EXCEPT ![r.gameId].player2Id = r.userId,
                                     ![r.gameId].status = "IN_PROGRESS"]
           /\ Respond(p, seq, r, "ok")
    /\ UNCHANGED <<balance, transactions, moves, pre>>
    /\ UNCHANGED ethVars

MovesOf(gameId) == SelectSeq(moves, LAMBDA m : m.gameId = gameId)

\* handleGameCompletion's arithmetic (amounts are multiples of 10, so the
\* percentage is exact)
Commission(betAmount) == ((betAmount * 2) * PLATFORM_COMMISSION) \div 100

WinnerAmount(betAmount) == (betAmount * 2) - Commission(betAmount)

\* makeMove without the test of chess.move's result: an illegal move is
\* recorded like a legal one
MakeMoveArriveUnvalidated(p, seq, gameId, playerId, kind) ==
    /\ Arrive(p, seq)
    /\ gameId <= Len(games)
    /\ games[gameId].status = "IN_PROGRESS"
    /\ games[gameId].fen.ply < MaxPly
    /\ playerId = (IF ChessTurn(games[gameId].fen) = "w"
                       THEN games[gameId].player1Id ELSE games[gameId].player2Id)
    /\ LET game == games[gameId]
           fen == ChessMove(game.fen, kind)
       IN  SetProc(p, [pc |-> "mm_createMove", op |-> "makeMove", userId |-> playerId,
                       gameId |-> gameId, kind |-> kind, game |-> game,
                       moveNumber |-> Len(SelectSeq(moves, LAMBDA m : m.gameId = gameId)) + 1,
                       contractGameId |-> game.contractGameId,
                       winnerWallet |-> NULL, txHash |-> NULL, success |-> FALSE,
                       error |-> "none",
                       fen |-> fen,
                       isGameOver |-> ChessIsGameOver(fen),
                       winnerId |-> IF ChessIsGameOver(fen)
                                        THEN determineWinner(fen, game.player1Id, game.player2Id)
                                        ELSE NULL])
    /\ UNCHANGED <<balance, transactions, games, moves>>
    /\ UNCHANGED ethVars

\* makeMove with no check of whose turn it is
TurnCheckSkipped(game, playerId) == FALSE

\* makeMove's turn check: the creator moves on white's turn, the joiner on
\* black's, and anybody else is turned away
TurnCheckFails(game, playerId) ==
    LET expectedPlayerId == IF ChessTurn(game.fen) = "w"
                                THEN game.player1Id ELSE game.player2Id
    IN  expectedPlayerId # playerId

\* makeMove: game.findUnique with its moves, the status and turn checks, and
\* chess.move on the position that was read.
MakeMoveArrive(p, seq, gameId, playerId, kind) ==
    /\ Arrive(p, seq)
    /\ (gameId <= Len(games) /\ games[gameId].status = "IN_PROGRESS")
            => games[gameId].fen.ply < MaxPly
    /\ LET found == gameId <= Len(games)
           game == IF found THEN games[gameId] ELSE NewGame(NULL, 0, "none")
           fen == ChessMove(game.fen, kind)
           isGameOver == ChessIsGameOver(fen)
           req == [pc |-> "mm_createMove", op |-> "makeMove", userId |-> playerId,
                   gameId |-> gameId, kind |-> kind, game |-> game,
                   moveNumber |-> Len(MovesOf(gameId)) + 1,
                   contractGameId |-> game.contractGameId,
                   winnerWallet |-> NULL, txHash |-> NULL, success |-> FALSE,
                   error |-> "none",
                   fen |-> fen,
                   isGameOver |-> isGameOver,
                   winnerId |-> IF isGameOver
                                    THEN determineWinner(fen, game.player1Id, game.player2Id)
                                    ELSE NULL]
           error == IF ~found THEN "Game not found"
                    ELSE IF game.status # "IN_PROGRESS" THEN "Game is not in progress"
                    ELSE IF TurnCheckFails(game, playerId) THEN "Not your turn"
                    ELSE IF ~ChessMoveLegal(game.fen, kind) THEN "Invalid move: Invalid move"
                    ELSE "ok"
       IN  IF error = "ok"
               THEN SetProc(p, req)
               ELSE Reject(p, seq, req, error)
    /\ UNCHANGED <<balance, transactions, games, moves>>
    /\ UNCHANGED ethVars

\* The Move table takes any row: the schema's uniqueness constraints are on
\* the external game id and on the deposit correlation id only.
MoveInsertAllowed(row) == TRUE

\* prisma.move.create
MakeMoveCreateMove(p, seq) ==
    /\ procs[p].pc = "mm_createMove"
    /\ LET r == procs[p]
           row == [gameId |-> r.gameId, moveNumber |-> r.moveNumber,
                   moveSan |-> r.kind, playerId |-> r.userId]
       IN  IF MoveInsertAllowed(row)
               THEN /\ moves' = Append(moves, row)
                    /\ SetProc(p, [r EXCEPT !.pc = "mm_update"])
               ELSE /\ Respond(p, seq, r, "Invalid move: Unique constraint failed")
                    /\ UNCHANGED moves
    /\ UNCHANGED <<balance, transactions, games, pre>>
    /\ UNCHANGED ethVars

\* Where makeMove goes after game.update: the escrow oracle for an ETH game,
\* releaseAndDistribute for another game with a winner, else it returns.
AfterUpdate(r) ==
    IF ~r.isGameOver THEN "done"
    ELSE IF r.game.betCurrency = "CRYPTO_ETH" /\ r.game.contractGameId # NULL THEN "eth_find"
    ELSE IF r.winnerId # NULL THEN "rd_release"
    ELSE "done"

\* prisma.game.update({ data: { fen, status, winnerId } })
MakeMoveUpdate(p, seq) ==
    /\ procs[p].pc = "mm_update"
    /\ LET r == procs[p]
       IN  /\ games' = [games EXCEPT
                   ![r.gameId].fen = r.fen,
                   ![r.gameId].status = IF r.isGameOver THEN "FINISHED" ELSE "IN_PROGRESS",
                   ![r.gameId].winnerId = r.winnerId]
           /\ IF AfterUpdate(r) = "done"
                  THEN Respond(p, seq, r, "ok")
                  ELSE SetProc(p, [r EXCEPT !.pc = AfterUpdate(r)])
    /\ UNCHANGED <<balance, transactions, moves, pre>>
    /\ UNCHANGED ethVars

\* releaseAndDistribute: createMany of the two BET_RELEASED rows
ReleaseCreateMany(p) ==
    /\ procs[p].pc = "rd_release"
    /\ LET r == procs[p]
           g == r.game
       IN  /\ transactions' = transactions \o
                   << Tx(g.player1Id, "BET_RELEASED", g.betAmount, g.betCurrency,
                         "COMPLETED", r.gameId, NULL),
                      Tx(g.player2Id, "BET_RELEASED", g.betAmount, g.betCurrency,
                         "COMPLETED", r.gameId, NULL) >>
           /\ SetProc(p, [r EXCEPT !.pc = "rd_win"])
    /\ UNCHANGED <<balance, games, moves, pre>>
    /\ UNCHANGED ethVars

ReleaseWinTx(p) ==
    /\ procs[p].pc = "rd_win"
    /\ LET r == procs[p]
           g == r.game
       IN  /\ transactions' = Append(transactions,
                   Tx(r.winnerId, "WIN", WinnerAmount(g.betAmount), g.betCurrency,
                      "COMPLETED", r.gameId, NULL))
           /\ SetProc(p, [r EXCEPT !.pc = "rd_commission"])
    /\ UNCHANGED <<balance, games, moves, pre>>
    /\ UNCHANGED ethVars

\* the COMMISSION row is written against player1
ReleaseCommissionTx(p) ==
    /\ procs[p].pc = "rd_commission"
    /\ LET r == procs[p]
           g == r.game
       IN  /\ transactions' = Append(transactions,
                   Tx(g.player1Id, "COMMISSION", Commission(g.betAmount), g.betCurrency,
                      "COMPLETED", r.gameId, NULL))
           /\ SetProc(p, [r EXCEPT !.pc = "rd_bal1"])
    /\ UNCHANGED <<balance, games, moves, pre>>
    /\ UNCHANGED ethVars

ReleaseBalance1(p) ==
    /\ procs[p].pc = "rd_bal1"
    /\ LET r == procs[p]
           g == r.game
       IN  /\ balance' = Increment(g.player1Id, BettingBalanceField(g.betCurrency), g.betAmount)
           /\ SetProc(p, [r EXCEPT !.pc = "rd_bal2"])
    /\ UNCHANGED <<transactions, games, moves, pre>>
    /\ UNCHANGED ethVars

ReleaseBalance2(p) ==
    /\ procs[p].pc = "rd_bal2"
    /\ LET r == procs[p]
           g == r.game
       IN  /\ balance' = Increment(g.player2Id, BettingBalanceField(g.betCurrency), g.betAmount)
           /\ SetProc(p, [r EXCEPT !.pc = "rd_balW"])
    /\ UNCHANGED <<transactions, games, moves, pre>>
    /\ UNCHANGED ethVars

ReleaseBalanceWinner(p, seq) ==
    /\ procs[p].pc = "rd_balW"
    /\ LET r == procs[p]
           g == r.game
       IN  /\ balance' = Increment(r.winnerId, BettingBalanceField(g.betCurrency),
                                   WinnerAmount(g.betAmount))
           /\ Respond(p, seq, r, "ok")
    /\ UNCHANGED <<transactions, games, moves, pre>>
    /\ UNCHANGED ethVars

\* A store call of releaseAndDistribute throws (the store is unreachable,
\* the statement times out): the exception leaves handleGameCompletion and
\* reaches the catch of makeMove, which throws 'Invalid move: ' + message.
ReleaseThrows(p, seq) ==
    /\ procs[p].pc \in {"rd_release", "rd_win", "rd_commission",
                        "rd_bal1", "rd_bal2", "rd_balW"}
    /\ Respond(p, seq, procs[p], "Invalid move: store call failed")
    /\ UNCHANGED <<balance, transactions, games, moves, pre>>
    /\ UNCHANGED ethVars

\* The caller has its answer; the slot is free for the next request.
Return(p) ==
    /\ procs[p].pc = "done"
    /\ SetProc(p, Idle)
    /\ UNCHANGED <<balance, transactions, games, moves, pre>>
    /\ UNCHANGED ethVars

\* ------------------------------------------------------------- ChessEscrow
\* Every account that plays is an externally owned account: a transfer of
\* ETH to it goes through.  Of the owner's functions setCommission and
\* withdrawFees are modelled; setOracle, setBetLimits and setTimeouts are not
\* called.  activeGameIds is a sequence (Solidity counts its slots from 0,
\* the sequence from 1), gameIdIndex holds the Solidity index, 0 when unset.
Pay(wei, from, to, amount) == [wei EXCEPT ![from] = @ - amount, ![to] = @ + amount]

\* _removeFromActiveGames panics (and the call reverts) on an empty array
\* and on an index past its end
RemovePanics(e, gameId) ==
    \/ Len(e.activeGameIds) = 0
    \/ e.gameIdIndex[gameId] >= Len(e.activeGameIds)

\* _removeFromActiveGames without the swap: the array just loses its last slot
RemoveFromActiveGamesPop(e, gameId) ==
    [e EXCEPT !.activeGameIds = SubSeq(@, 1, Len(@) - 1),
              !.gameIdIndex[gameId] = 0]

\* _removeFromActiveGames: the last id moves into the slot of gameId, the
\* array loses its last slot and the index entry of gameId is deleted
RemoveFromActiveGames(e, gameId) ==
    LET index == e.gameIdIndex[gameId]
        lastIndex == Len(e.activeGameIds) - 1
        lastGameId == e.activeGameIds[lastIndex + 1]
        swapped == IF index # lastIndex
                       THEN [e EXCEPT !.activeGameIds[index + 1] = lastGameId,
                                      !.gameIdIndex[lastGameId] = index]
                       ELSE e
    IN  [swapped EXCEPT !.activeGameIds = SubSeq(@, 1, lastIndex),
                        !.gameIdIndex[gameId] = 0]

\* createGame without its require that the id is unused
EscrowCreateRevertsUsedId(c, sender, value) ==
    \/ value < minBetAmount
    \/ value > maxBetAmount

\* the requires of createGame
EscrowCreateReverts(c, sender, value) ==
    \/ escrow[c].player1 # ZeroAddress
    \/ value < minBetAmount
    \/ value > maxBetAmount

EscrowCreateGame(c, sender, value) ==
    /\ evm.wei[sender] >= value
    /\ ~EscrowCreateReverts(c, sender, value)
    /\ escrow' = [escrow EXCEPT ![c] =
            [player1 |-> sender, player2 |-> ZeroAddress, betAmount |-> value,
             state |-> "WaitingForPlayer", winner |-> ZeroAddress,
             createdAt |-> evm.timestamp, payouts |-> 0]]
    /\ evm' = [evm EXCEPT !.wei = Pay(@, sender, EscrowAddress, value),
                          !.gameIdIndex[c] = Len(evm.activeGameIds),
                          !.activeGameIds = Append(@, c)]
    /\ UNCHANGED <<balance, transactions, games, moves, procs, pre, chain, oracle>>

\* the modifier gameExists and the requires of joinGame
EscrowJoinReverts(c, sender, value) ==
    \/ escrow[c].player1 = ZeroAddress
    \/ escrow[c].state # "WaitingForPlayer"
    \/ escrow[c].player1 = sender
    \/ value # escrow[c].betAmount
    \/ evm.timestamp > escrow[c].createdAt + joinTimeout

EscrowJoinGame(c, sender, value) ==
    /\ evm.wei[sender] >= value
    /\ ~EscrowJoinReverts(c, sender, value)
    /\ escrow' = [escrow EXCEPT ![c].player2 = sender, ![c].state = "InProgress"]
    /\ evm' = [evm EXCEPT !.wei = Pay(@, sender, EscrowAddress, value)]
    /\ UNCHANGED <<balance, transactions, games, moves, procs, pre, chain, oracle>>

\* declareWinner without its require on the game's state
EscrowDeclareRevertsStateless(c, winner) ==
    \/ escrow[c].player1 = ZeroAddress
    \/ winner \notin {ZeroAddress, escrow[c].player1, escrow[c].player2}

\* the requires of declareWinner, the caller being the oracle account
EscrowDeclareReverts(c, winner) ==
    \/ escrow[c].player1 = ZeroAddress
    \/ escrow[c].state # "InProgress"
    \/ winner \notin {ZeroAddress, escrow[c].player1, escrow[c].player2}

\* declareWinner without the modifier onlyOracle
EscrowDeclareWinnerRevertsAnyCaller(c, sender, winner) ==
    EscrowDeclareReverts(c, winner)

\* the modifiers and requires of declareWinner, for any caller
EscrowDeclareWinnerReverts(c, sender, winner) ==
    \/ sender # OracleAccount
    \/ EscrowDeclareReverts(c, winner)

\* what declareWinner writes to the game, and what it pays: a draw refunds
\* both stakes, a win pays the pot less the commission, which is kept
DeclareWinnerGame(g, winner) ==
    [g EXCEPT !.state = "Finished", !.winner = winner, !.payouts = @ + 1]

DeclareWinnerEvm(g, winner) ==
    IF winner = ZeroAddress
        THEN [evm EXCEPT !.wei = Pay(Pay(@, EscrowAddress, g.player1, g.betAmount),
                                     EscrowAddress, g.player2, g.betAmount)]
        ELSE LET totalPot == g.betAmount * 2
                 commission == (totalPot * evm.commissionBps) \div 10000
                 winnings == totalPot - commission
             IN  [evm EXCEPT !.accumulatedFees = @ + commission,
                             !.wei = Pay(@, EscrowAddress, winner, winnings)]

EscrowDeclareWinner(c, sender, winner) ==
    /\ ~EscrowDeclareWinnerReverts(c, sender, winner)
    /\ ~RemovePanics(evm, c)
    /\ escrow' = [escrow EXCEPT ![c] = DeclareWinnerGame(@, winner)]
    /\ evm' = RemoveFromActiveGames(DeclareWinnerEvm(escrow[c], winner), c)
    /\ UNCHANGED <<balance, transactions, games, moves, procs, pre, chain, oracle>>

\* A submitted declareWinner transaction is mined: the contract runs it.
Mine(h) ==
    /\ h \in 1 .. Len(chain)
    /\ chain[h].status = "pending"
    /\ LET tx == chain[h]
       IN  IF \/ EscrowDeclareReverts(tx.contractGameId, tx.winner)
              \/ RemovePanics(evm, tx.contractGameId)
               THEN /\ chain' = [chain EXCEPT ![h].status = "reverted"]
                    /\ UNCHANGED <<escrow, evm>>
               ELSE /\ chain' = [chain EXCEPT ![h].status = "success"]
                    /\ escrow' = [escrow EXCEPT ![tx.contractGameId] =
                                      DeclareWinnerGame(@, tx.winner)]
                    /\ evm' = RemoveFromActiveGames(
                                   DeclareWinnerEvm(escrow[tx.contractGameId], tx.winner),
                                   tx.contractGameId)
    /\ UNCHANGED <<balance, transactions, games, moves, procs, pre, oracle>>

\* cancelGame open to every account at every time
EscrowCancelRevertsAnyCaller(c, sender) ==
    \/ escrow[c].player1 = ZeroAddress
    \/ escrow[c].state # "WaitingForPlayer"

\* the modifier gameExists and the requires of cancelGame
EscrowCancelReverts(c, sender) ==
    \/ escrow[c].player1 = ZeroAddress
    \/ escrow[c].state # "WaitingForPlayer"
    \/ ~(\/ sender = escrow[c].player1
         \/ evm.timestamp > escrow[c].createdAt + joinTimeout)

EscrowCancelGame(c, sender) ==
    /\ ~EscrowCancelReverts(c, sender)
    /\ ~RemovePanics(evm, c)
    /\ escrow' = [escrow EXCEPT ![c].state = "Cancelled"]
    /\ evm' = RemoveFromActiveGames(
                   [evm EXCEPT !.wei = Pay(@, EscrowAddress, escrow[c].player1,
                                           escrow[c].betAmount)], c)
    /\ UNCHANGED <<balance, transactions, games, moves, procs, pre, chain, oracle>>

\* forceFinishTimedOutGame without its require on the game timeout
EscrowForceFinishRevertsNoTimeout(c, sender) ==
    \/ escrow[c].player1 = ZeroAddress
    \/ escrow[c].state # "InProgress"

\* the modifier gameExists and the requires of forceFinishTimedOutGame
EscrowForceFinishReverts(c, sender) ==
    \/ escrow[c].player1 = ZeroAddress
    \/ escrow[c].state # "InProgress"
    \/ ~(evm.timestamp > escrow[c].createdAt + gameTimeout)

EscrowForceFinishTimedOutGame(c, sender) ==
    /\ ~EscrowForceFinishReverts(c, sender)
    /\ ~RemovePanics(evm, c)
    /\ escrow' = [escrow EXCEPT ![c].state = "Cancelled"]
    /\ evm' = RemoveFromActiveGames(
                   [evm EXCEPT !.wei = Pay(Pay(@, EscrowAddress, escrow[c].player1,
                                               escrow[c].betAmount),
                                           EscrowAddress, escrow[c].player2,
                                           escrow[c].betAmount)], c)
    /\ UNCHANGED <<balance, transactions, games, moves, procs, pre, chain, oracle>>

\* the modifier onlyOwner and the require of setCommission
EscrowSetCommissionReverts(sender, bps) ==
    \/ sender # OwnerAccount
    \/ bps > 1000

EscrowSetCommission(sender, bps) ==
    /\ ~EscrowSetCommissionReverts(sender, bps)
    /\ evm' = [evm EXCEPT !.commissionBps = bps]
    /\ UNCHANGED <<balance, transactions, games, moves, procs, pre, escrow, chain, oracle>>

\* withdrawFees paying out the contract's whole balance
EscrowWithdrawFeesAll(sender, to) ==
    /\ sender = OwnerAccount
    /\ to # ZeroAddress
    /\ evm.wei[EscrowAddress] > 0
    /\ evm' = [evm EXCEPT !.accumulatedFees = 0,
                          !.wei = Pay(@, EscrowAddress, to, evm.wei[EscrowAddress])]
    /\ UNCHANGED <<balance, transactions, games, moves, procs, pre, escrow, chain, oracle>>

\* the modifier onlyOwner and the requires of withdrawFees
EscrowWithdrawFeesReverts(sender, to) ==
    \/ sender # OwnerAccount
    \/ to = ZeroAddress
    \/ ~(evm.accumulatedFees > 0)

EscrowWithdrawFees(sender, to) ==
    /\ ~EscrowWithdrawFeesReverts(sender, to)
    /\ evm' = [evm EXCEPT !.accumulatedFees = 0,
                          !.wei = Pay(@, EscrowAddress, to, evm.accumulatedFees)]
    /\ UNCHANGED <<balance, transactions, games, moves, procs, pre, escrow, chain, oracle>>

\* block.timestamp moves on by the given number of days
Elapse(days) ==
    /\ evm.timestamp + days <= MaxTime
    /\ evm' = [evm EXCEPT !.timestamp = @ + days]
    /\ UNCHANGED <<balance, transactions, games, moves, procs, pre, escrow, chain,
                   oracle, receipt>>

\* A call that fails a require reverts: nothing is written and nothing paid.
EscrowCallReverts(fn, c, sender, value, winner) ==
    CASE fn = "createGame" -> EscrowCreateReverts(c, sender, value)
      [] fn = "joinGame" -> EscrowJoinReverts(c, sender, value)
      [] fn = "declareWinner" -> EscrowDeclareWinnerReverts(c, sender, winner)
      [] fn = "cancelGame" -> EscrowCancelReverts(c, sender)
      [] fn = "forceFinishTimedOutGame" -> EscrowForceFinishReverts(c, sender)

EscrowReverted(fn, c, sender, value, winner) ==
    /\ EscrowCallReverts(fn, c, sender, value, winner)
    /\ receipt' = Receipt(fn, c, sender, value, winner, FALSE)
    /\ UNCHANGED <<balance, transactions, games, moves, procs, pre, escrow, chain,
                   oracle, evm>>

\* a block later
Tick ==
    /\ evm.timestamp < MaxTime
    /\ evm' = [evm EXCEPT !.timestamp = @ + 1]
    /\ UNCHANGED <<balance, transactions, games, moves, procs, pre, escrow, chain,
                   oracle, receipt>>

\* ------------------------------------------------- GameService, ETH games
\* createEthGame: user.findFirst by wallet, then game.create.
CreateEthGameArrive(p, seq, contractGameId, player1Wallet, betAmount) ==
    /\ Arrive(p, seq)
    /\ Len(games) + InFlight("createGame") + InFlight("createEthGame") < MaxGames
    /\ SetProc(p, [pc |-> "ceg_create", op |-> "createEthGame",
                   userId |-> UserByWallet(player1Wallet), wallet |-> player1Wallet,
                   amount |-> betAmount, contractGameId |-> contractGameId,
                   gameId |-> NULL])
    /\ UNCHANGED <<balance, transactions, games, moves>>
    /\ UNCHANGED ethVars

\* prisma.game.create (contractGameId is a unique column)
CreateEthGameCreate(p, seq) ==
    /\ procs[p].pc = "ceg_create"
    /\ LET r == procs[p]
           clash == \E g \in 1 .. Len(games) : games[g].contractGameId = r.contractGameId
       IN  IF clash
               THEN /\ Respond(p, seq, r, "Unique constraint failed")
                    /\ UNCHANGED games
               ELSE /\ games' = Append(games,
                            [NewGame(r.userId, r.amount, "CRYPTO_ETH") EXCEPT
                                !.contractGameId = r.contractGameId,
                                !.player1Wallet = r.wallet])
                    /\ Respond(p, seq, [r EXCEPT !.gameId = Len(games) + 1], "ok")
    /\ UNCHANGED <<balance, transactions, moves, pre>>
    /\ UNCHANGED ethVars

\* joinEthGame: game.findUnique and the two checks on what it returned,
\* then user.findFirst by wallet.
JoinEthGameArrive(p, seq, gameId, player2Wallet) ==
    /\ Arrive(p, seq)
    /\ LET found == gameId <= Len(games)
           req == [pc |-> "jeg_update", op |-> "joinEthGame",
                   userId |-> UserByWallet(player2Wallet), wallet |-> player2Wallet,
                   gameId |-> gameId]
           error == IF ~found THEN "Game not found"
                    ELSE IF games[gameId].status # "WAITING_PLAYER"
                        THEN "Game is not available for joining"
                    ELSE "ok"
       IN  IF error = "ok"
               THEN SetProc(p, req)
               ELSE Reject(p, seq, req, error)
    /\ UNCHANGED <<balance, transactions, games, moves>>
    /\ UNCHANGED ethVars

\* joinEthGame writing the joiner into the creator's column
JoinEthGameUpdateCreator(p, seq) ==
    /\ procs[p].pc = "jeg_update"
    /\ LET r == procs[p]
       IN  /\ games' = [games EXCEPT ![r.gameId].player1Id = r.userId,
                                     ![r.gameId].status = "IN_PROGRESS",
                                     ![r.gameId].player1Wallet = r.wallet]
           /\ Respond(p, seq, r, "ok")
    /\ UNCHANGED <<balance, transactions, moves, pre>>
    /\ UNCHANGED ethVars

JoinEthGameUpdate(p, seq) ==
    /\ procs[p].pc = "jeg_update"
    /\ LET r == procs[p]
       IN  /\ games' = [games EXCEPT ![r.gameId].player2Id = r.userId,
                                     ![r.gameId].status = "IN_PROGRESS",
                                     ![r.gameId].player2Wallet = r.wallet]
           /\ Respond(p, seq, r, "ok")
    /\ UNCHANGED <<balance, transactions, moves, pre>>
    /\ UNCHANGED ethVars

\* ----------------------------------------------------------- OracleService
\* declareWinner returns to its caller: handleEthGameCompletion in a
\* makeMove request, processQueue in the drain loop.
DeclareReturn(p, r, success, error) ==
    SetProc(p, [r EXCEPT !.pc = IF p = OracleLoop THEN "pq_result" ELSE "eth_result",
                         !.success = success, !.error = error])

\* null (a draw) is sent as the zero address
WinnerAddress(winnerWallet) == IF winnerWallet = NULL THEN ZeroAddress ELSE winnerWallet

\* declareWinner without the pre-check of the escrow record's state
DeclareReadNoStateCheck(p) ==
    /\ procs[p].pc = "dw_read"
    /\ LET r == procs[p]
           game == escrow[r.contractGameId]
           winner == WinnerAddress(r.winnerWallet)
       IN  IF winner # ZeroAddress /\ winner # game.player1 /\ winner # game.player2
               THEN DeclareReturn(p, r, FALSE, "Winner is not a player in this game")
               ELSE SetProc(p, [r EXCEPT !.pc = "dw_submit"])
    /\ UNCHANGED <<balance, transactions, games, moves, pre>>
    /\ UNCHANGED ethVars

\* publicClient.readContract getGame, and the checks on the record
DeclareRead(p) ==
    /\ procs[p].pc = "dw_read"
    /\ LET r == procs[p]
           game == escrow[r.contractGameId]
           winner == WinnerAddress(r.winnerWallet)
       IN  IF game.state # "InProgress"
               THEN DeclareReturn(p, r, FALSE, "Game is not in progress")
           ELSE IF winner # ZeroAddress /\ winner # game.player1 /\ winner # game.player2
               THEN DeclareReturn(p, r, FALSE, "Winner is not a player in this game")
           ELSE SetProc(p, [r EXCEPT !.pc = "dw_submit"])
    /\ UNCHANGED <<balance, transactions, games, moves, pre>>
    /\ UNCHANGED ethVars

\* readContract throws: 'Failed to verify game in contract'
DeclareReadFails(p) ==
    /\ procs[p].pc = "dw_read"
    /\ DeclareReturn(p, procs[p], FALSE, "Failed to verify game in contract")
    /\ UNCHANGED <<balance, transactions, games, moves, pre>>
    /\ UNCHANGED ethVars

\* walletClient.writeContract declareWinner returns the hash
DeclareSubmit(p) ==
    /\ procs[p].pc = "dw_submit"
    /\ Len(chain) < MaxTxs
    /\ LET r == procs[p]
       IN  /\ chain' = Append(chain, [contractGameId |-> r.contractGameId,
                                      winner |-> WinnerAddress(r.winnerWallet),
                                      status |-> "pending"])
           /\ SetProc(p, [r EXCEPT !.pc = "dw_wait", !.txHash = Len(chain) + 1])
    /\ UNCHANGED <<balance, transactions, games, moves, pre, escrow, oracle, evm, receipt>>

\* writeContract throws
DeclareSubmitFails(p) ==
    /\ procs[p].pc = "dw_submit"
    /\ DeclareReturn(p, procs[p], FALSE, "Transaction failed")
    /\ UNCHANGED <<balance, transactions, games, moves, pre>>
    /\ UNCHANGED ethVars

\* declareWinner without the test of receipt.status: any receipt counts as
\* a success
DeclareReceiptUnchecked(p) ==
    /\ procs[p].pc = "dw_wait"
    /\ chain[procs[p].txHash].status # "pending"
    /\ SetProc(p, [procs[p] EXCEPT !.pc = "dw_updateDb"])
    /\ UNCHANGED <<balance, transactions, games, moves, pre>>
    /\ UNCHANGED ethVars

\* waitForTransactionReceipt returns the receipt of the mined transaction
DeclareReceipt(p) ==
    /\ procs[p].pc = "dw_wait"
    /\ chain[procs[p].txHash].status # "pending"
    /\ LET r == procs[p]
       IN  IF chain[r.txHash].status = "success"
               THEN SetProc(p, [r EXCEPT !.pc = "dw_updateDb"])
               ELSE DeclareReturn(p, r, FALSE, "Transaction reverted")
    /\ UNCHANGED <<balance, transactions, games, moves, pre>>
    /\ UNCHANGED ethVars

\* waitForTransactionReceipt throws (timeout, RPC error); the transaction
\* stays where it is
DeclareWaitFails(p) ==
    /\ procs[p].pc = "dw_wait"
    /\ DeclareReturn(p, procs[p], FALSE, "Timed out while waiting for transaction")
    /\ UNCHANGED <<balance, transactions, games, moves, pre>>
    /\ UNCHANGED ethVars

\* prisma.game.update({ data: { finishTxHash, winnerWallet } })
DeclareUpdateDb(p) ==
    /\ procs[p].pc = "dw_updateDb"
    /\ LET r == procs[p]
       IN  /\ games' = [games EXCEPT ![r.gameId].finishTxHash = r.txHash,
                                     ![r.gameId].winnerWallet = WinnerAddress(r.winnerWallet)]
           /\ DeclareReturn(p, r, TRUE, "none")
    /\ UNCHANGED <<balance, transactions, moves, pre>>
    /\ UNCHANGED ethVars

\* position of gameId's entry in pendingDeclarations (0: no entry)
RECURSIVE IndexOf(_, _, _)
IndexOf(pending, gameId, i) ==
    IF i > Len(pending) THEN 0
    ELSE IF pending[i].gameId = gameId THEN i
    ELSE IndexOf(pending, gameId, i + 1)

\* pendingDeclarations.set: a new key goes last, a present key keeps its
\* place and gets the new value
MapSet(pending, d) ==
    LET i == IndexOf(pending, d.gameId, 1)
    IN  IF i = 0 THEN Append(pending, d) ELSE [pending EXCEPT ![i] = d]

MapDelete(pending, gameId) == SelectSeq(pending, LAMBDA d : d.gameId # gameId)

\* first entry at or after position i that was not attempted within retryDelay
RECURSIVE NextDue(_, _)
NextDue(pending, i) ==
    IF i > Len(pending) THEN 0
    ELSE IF ~pending[i].recent THEN i
    ELSE NextDue(pending, i + 1)

\* The body of processQueue's for loop from position i on, up to its next
\* await: the entries attempted within retryDelay are skipped; the first
\* other one gets attempts++ and lastAttempt and declareWinner is called on
\* it; at the end of the map the loop sleeps.
LoopFrom(pending, i, configured) ==
    LET k == NextDue(pending, i)
    IN  IF k = 0
            THEN [pending |-> pending, proc |-> [pc |-> "pq_sleep", op |-> "processQueue"]]
            ELSE LET d == [pending[k] EXCEPT !.attempts = @ + 1, !.recent = TRUE]
                 IN  [pending |-> [pending EXCEPT ![k] = d],
                      proc |-> [pc |-> IF configured THEN "dw_read" ELSE "pq_result",
                                op |-> "processQueue", gameId |-> d.gameId,
                                contractGameId |-> d.contractGameId,
                                winnerWallet |-> d.winnerWallet, attempts |-> d.attempts,
                                txHash |-> NULL, success |-> FALSE,
                                error |-> IF configured THEN "none"
                                                        ELSE "Oracle not configured"]]

\* handleEthGameCompletion: game.findUnique, the winner's wallet, and the
\* call of declareWinner up to its first await
HandleEthFind(p) ==
    /\ procs[p].pc = "eth_find"
    /\ LET r == procs[p]
           game == games[r.gameId]
           winnerWallet ==
               IF r.winnerId = NULL THEN NULL
               ELSE IF r.winnerId = game.player1Id THEN r.game.player1Wallet
               ELSE IF r.winnerId = game.player2Id THEN r.game.player2Wallet
               ELSE NULL
       IN  SetProc(p, [r EXCEPT !.winnerWallet = winnerWallet,
                                !.pc = IF oracle.configured THEN "dw_read" ELSE "eth_result",
                                !.error = IF oracle.configured
                                              THEN "none" ELSE "Oracle not configured"])
    /\ UNCHANGED <<balance, transactions, games, moves, pre>>
    /\ UNCHANGED ethVars

\* declareWinner has returned: a failure is queued when there is a winner
\* wallet (queueDeclaration, and processQueue up to its first await when no
\* drain loop is running), and makeMove returns the finished game
HandleEthResult(p, seq) ==
    /\ procs[p].pc = "eth_result"
    /\ p # OracleLoop
    /\ LET r == procs[p]
           answer == IF seq THEN [pc |-> "done", op |-> r.op, result |-> "ok", req |-> r]
                            ELSE Idle
       IN  IF ~r.success /\ r.winnerWallet # NULL
               THEN LET d == [gameId |-> r.gameId, contractGameId |-> r.contractGameId,
                              winnerWallet |-> r.winnerWallet, attempts |-> 0,
                              recent |-> FALSE]
                        pending == MapSet(oracle.pending, d)
                        l == LoopFrom(pending, 1, oracle.configured)
                    IN  IF oracle.isProcessing
                            THEN /\ oracle' = [oracle EXCEPT !.pending = pending]
                                 /\ procs' = [procs EXCEPT ![p] = answer]
                            ELSE /\ oracle' = [oracle EXCEPT !.pending = l.pending,
                                                             !.isProcessing = TRUE]
                                 /\ procs' = [procs EXCEPT ![p] = answer,
                                                           ![OracleLoop] = l.proc]
               ELSE /\ procs' = [procs EXCEPT ![p] = answer]
                    /\ UNCHANGED oracle
    /\ UNCHANGED <<balance, transactions, games, moves, pre, escrow, chain, evm, receipt>>

\* processQueue after declareWinner returned: a success, or a failure of the
\* attempt numbered maxRetries, deletes the entry of the game id
ProcessQueueResult ==
    /\ procs[OracleLoop].pc = "pq_result"
    /\ LET r == procs[OracleLoop]
           i == IndexOf(oracle.pending, r.gameId, 1)
       IN  IF r.success
               THEN LET l == LoopFrom(MapDelete(oracle.pending, r.gameId),
                                      IF i = 0 THEN Len(oracle.pending) + 1 ELSE i,
                                      oracle.configured)
                    IN  /\ oracle' = [oracle EXCEPT !.pending = l.pending]
                        /\ SetProc(OracleLoop, l.proc)
           ELSE IF r.attempts >= maxRetries
               THEN /\ oracle' = [oracle EXCEPT !.pending = MapDelete(@, r.gameId)]
                    /\ SetProc(OracleLoop, [pc |-> "pq_mark", op |-> "processQueue",
                                            gameId |-> r.gameId,
                                            next |-> IF i = 0 THEN Len(oracle.pending) + 1
                                                              ELSE i])
           ELSE LET l == LoopFrom(oracle.pending,
                                  IF i = 0 THEN Len(oracle.pending) + 1 ELSE i + 1,
                                  oracle.configured)
                IN  /\ oracle' = [oracle EXCEPT !.pending = l.pending]
                    /\ SetProc(OracleLoop, l.proc)
    /\ UNCHANGED <<balance, transactions, games, moves, pre, escrow, chain, evm, receipt>>

\* prisma.game.update({ data: {} }): the row is written back as it is
ProcessQueueMarkFailed ==
    /\ procs[OracleLoop].pc = "pq_mark"
    /\ LET l == LoopFrom(oracle.pending, procs[OracleLoop].next, oracle.configured)
       IN  /\ oracle' = [oracle EXCEPT !.pending = l.pending]
           /\ SetProc(OracleLoop, l.proc)
    /\ UNCHANGED <<balance, transactions, games, moves, pre, escrow, chain, evm, receipt>>

\* the sleep ends and the loop exits whatever the map holds
ProcessQueueSleepExits(elapsed) ==
    /\ procs[OracleLoop].pc = "pq_sleep"
    /\ oracle' = [oracle EXCEPT !.isProcessing = FALSE]
    /\ SetProc(OracleLoop, Idle)
    /\ UNCHANGED <<balance, transactions, games, moves, pre, escrow, chain, evm, receipt>>

\* The one-second sleep has ended.  elapsed: retryDelay has passed since the
\* last attempts.  An empty map ends the loop; else the for loop starts over.
ProcessQueueSleep(elapsed) ==
    /\ procs[OracleLoop].pc = "pq_sleep"
    /\ LET aged == IF elapsed
                       THEN [k \in 1 .. Len(oracle.pending) |->
                                [oracle.pending[k] EXCEPT !.recent = FALSE]]
                       ELSE oracle.pending
           l == LoopFrom(aged, 1, oracle.configured)
       IN  IF Len(oracle.pending) = 0
               THEN /\ oracle' = [oracle EXCEPT !.isProcessing = FALSE]
                    /\ SetProc(OracleLoop, Idle)
               ELSE /\ oracle' = [oracle EXCEPT !.pending = l.pending]
                    /\ SetProc(OracleLoop, l.proc)
    /\ UNCHANGED <<balance, transactions, games, moves, pre, escrow, chain, evm, receipt>>

\* The server process exits and is started again.  Every handler in flight
\* and the drain loop are gone with it, and the new OracleService object
\* starts from its field initialisers: an empty pendingDeclarations map and
\* isProcessing false.  The store, the chain and the environment (the key)
\* are outside the process and stay as they are.  Restarts are taken while a
\* declaration is queued; one with an empty map loses no declaration.
Restart ==
    /\ oracle.pending # <<>>
    /\ procs' = [p \in AllProcs |-> Idle]
    /\ pre' = NoSnapshot
    /\ oracle' = [pending |-> <<>>, isProcessing |-> FALSE,
                  configured |-> oracle.configured]
    /\ UNCHANGED <<balance, transactions, games, moves, escrow, chain, evm, receipt>>

\* ------------------------------------------------------------ specifications
DepositStep(p, seq) ==
    \/ \E u \in Users, a \in DepositAmounts, c \in CurrencyInputs, e \in ExternalIds :
           DepositArrive(p, seq, u, a, c, e)
    \/ DepositCreate(p, seq)
    \/ DepositBalance(p, seq)

Step(p, seq) ==
    \/ \E u \in Users, a \in WithdrawAmounts, c \in CurrencyInputs :
           WithdrawArrive(p, seq, u, a, c)
    \/ WithdrawCreate(p)
    \/ WithdrawBalance(p, seq)
    \/ WithdrawComplete(p, seq)
    \/ \E u \in Users, a \in BetAmounts, c \in CurrencyInputs :
           CreateGameArrive(p, seq, u, a, c)
    \/ CreateGameLockTx(p)
    \/ CreateGameLockBalance(p)
    \/ CreateGameCreate(p, seq)
    \/ \E g \in GameIds, u \in Users : JoinGameArrive(p, seq, g, u)
    \/ JoinGameCheck(p, seq)
    \/ JoinGameLockTx(p)
    \/ JoinGameLockBalance(p)
    \/ JoinGameUpdate(p, seq)
    \/ \E g \in GameIds, u \in Users, k \in MoveKinds : MakeMoveArrive(p, seq, g, u, k)
    \/ MakeMoveCreateMove(p, seq)
    \/ MakeMoveUpdate(p, seq)
    \/ ReleaseCreateMany(p)
    \/ ReleaseWinTx(p)
    \/ ReleaseCommissionTx(p)
    \/ ReleaseBalance1(p)
    \/ ReleaseBalance2(p)
    \/ ReleaseBalanceWinner(p, seq)

\* requests interleave at every awaited store call
Next == \E p \in Procs : Step(p, FALSE)

Spec == InitFunded /\ [][Next]_vars

\* one request at a time, each run to its end before the next arrives
NextSeq == \E p \in Procs : DepositStep(p, TRUE) \/ Step(p, TRUE) \/ Return(p)

SpecSeq == Init /\ [][NextSeq]_vars

\* One request at a time, and makeMove requests in the name of a user who
\* takes no part in any game.
Stranger == NumUsers + 1

NextSeqStranger ==
    \/ NextSeq
    \/ \E p \in Procs, g \in GameIds, k \in MoveKinds : MakeMoveArrive(p, TRUE, g, Stranger, k)

SpecSeqStranger == Init /\ [][NextSeqStranger]_vars

\* One request at a time, on a store whose calls can fail while a finished
\* game is being settled.
NextSeqFaulty ==
    \/ NextSeq
    \/ \E p \in Procs : ReleaseThrows(p, TRUE)

SpecSeqFaulty == Init /\ [][NextSeqFaulty]_vars

\* ETH games: the escrow, the two registration handlers, makeMove and the
\* oracle service.  One request at a time, beside the drain loop and the
\* mining of the submitted transactions.
InitEth ==
    /\ balance = [u \in Users |-> ZeroBalance]
    /\ transactions = <<>>
    /\ games = <<>>
    /\ moves = <<>>
    /\ procs = [p \in AllProcs |-> Idle]
    /\ pre = NoSnapshot
    /\ EthInit(BOOLEAN)

EthStep(p, seq) ==
    \/ \E c \in ContractIds, w \in Wallets, a \in BetAmounts :
           CreateEthGameArrive(p, seq, c, w, a)
    \/ CreateEthGameCreate(p, seq)
    \/ \E g \in GameIds, w \in Wallets : JoinEthGameArrive(p, seq, g, w)
    \/ JoinEthGameUpdate(p, seq)
    \/ \E g \in GameIds, u \in Users, k \in MoveKinds : MakeMoveArrive(p, seq, g, u, k)
    \/ MakeMoveCreateMove(p, seq)
    \/ MakeMoveUpdate(p, seq)
    \/ HandleEthFind(p)
    \/ HandleEthResult(p, seq)

DeclareStep(p) ==
    \/ DeclareRead(p)
    \/ DeclareReadFails(p)
    \/ DeclareSubmit(p)
    \/ DeclareSubmitFails(p)
    \/ DeclareReceipt(p)
    \/ DeclareWaitFails(p)
    \/ DeclareUpdateDb(p)

LoopStep ==
    \/ ProcessQueueResult
    \/ ProcessQueueMarkFailed
    \/ \E elapsed \in BOOLEAN : ProcessQueueSleep(elapsed)

ChainStep ==
    /\ \/ \E c \in ContractIds, w \in Accounts, a \in BetAmounts : EscrowCreateGame(c, w, a)
       \/ \E c \in ContractIds, w \in Accounts, a \in BetAmounts : EscrowJoinGame(c, w, a)
       \/ \E h \in 1 .. MaxTxs : Mine(h)
    /\ UNCHANGED receipt

NextEth ==
    \/ \E p \in Procs : EthStep(p, TRUE) \/ Return(p)
    \/ \E p \in AllProcs : DeclareStep(p)
    \/ LoopStep
    \/ ChainStep

SpecEth == InitEth /\ [][NextEth]_vars

\* An ETH game under way: contract game 1 was created and joined on the
\* escrow by the two users' wallets and registered by createEthGame and
\* joinEthGame, and the creator has made the first move (what those
\* requests leave when each has run to its end).
StartedEthGame ==
    [NewGame(1, InitialDeposit, "CRYPTO_ETH") EXCEPT
        !.player2Id = 2, !.status = "IN_PROGRESS", !.contractGameId = 1,
        !.player1Wallet = Wallet(1), !.player2Wallet = Wallet(2),
        !.fen = ChessMove(StartFen, "plain")]

InitEthRace ==
    /\ balance = [u \in Users |-> ZeroBalance]
    /\ transactions = <<>>
    /\ games = <<StartedEthGame>>
    /\ moves = <<[gameId |-> 1, moveNumber |-> 1, moveSan |-> "plain", playerId |-> 1]>>
    /\ procs = [p \in AllProcs |-> Idle]
    /\ pre = NoSnapshot
    /\ escrow = [c \in ContractIds |->
            IF c = 1 THEN [player1 |-> Wallet(1), player2 |-> Wallet(2),
                           betAmount |-> InitialDeposit, state |-> "InProgress",
                           winner |-> ZeroAddress, createdAt |-> 0, payouts |-> 0]
                     ELSE NoEscrowGame]
    /\ chain = <<>>
    /\ oracle = [pending |-> <<>>, isProcessing |-> FALSE, configured |-> TRUE]
    /\ evm = [EvmInit EXCEPT !.wei[Wallet(1)] = 0, !.wei[Wallet(2)] = 0,
                             !.wei[EscrowAddress] = 2 * InitialDeposit,
                             !.activeGameIds = <<1>>]
    /\ receipt = NoReceipt

\* makeMove requests on it interleave at every awaited call, beside the
\* drain loop and the mining of the submitted transactions
PlayStep(p) ==
    \/ \E g \in GameIds, u \in Users, k \in MoveKinds : MakeMoveArrive(p, FALSE, g, u, k)
    \/ MakeMoveCreateMove(p, FALSE)
    \/ MakeMoveUpdate(p, FALSE)
    \/ HandleEthFind(p)
    \/ HandleEthResult(p, FALSE)

NextEthRace ==
    \/ \E p \in Procs : PlayStep(p)
    \/ \E p \in AllProcs : DeclareStep(p)
    \/ LoopStep
    \/ \E h \in 1 .. MaxTxs : Mine(h) /\ UNCHANGED receipt

SpecEthRace == InitEthRace /\ [][NextEthRace]_vars

\* The same with fair scheduling of the drain loop: a timer that is due
\* fires, retryDelay passes, and every call the loop awaits (the RPC calls of
\* declareWinner, the store update) returns.
SpecEthRaceFair ==
    /\ SpecEthRace
    /\ WF_vars(DeclareStep(OracleLoop))
    /\ WF_vars(ProcessQueueResult)
    /\ WF_vars(ProcessQueueMarkFailed)
    /\ WF_vars(ProcessQueueSleep(TRUE))

\* The game under way again, now with restarts of the server process at any
\* moment.
NextEthRestart == NextEthRace \/ Restart

SpecEthRestart == InitEthRace /\ [][NextEthRestart]_vars

\* The escrow contract on its own: any account calls any function with any
\* argument at any time, and every call leaves a receipt.
EscrowValues == BetAmounts \cup {0}
EscrowWinners == Callers \cup {ZeroAddress}

EscrowStep ==
    \/ \E c \in ContractIds, w \in Callers, a \in EscrowValues :
           \/ /\ EscrowCreateGame(c, w, a)
              /\ receipt' = Receipt("createGame", c, w, a, ZeroAddress, TRUE)
           \/ EscrowReverted("createGame", c, w, a, ZeroAddress)
    \/ \E c \in ContractIds, w \in Callers, a \in EscrowValues :
           \/ /\ EscrowJoinGame(c, w, a)
              /\ receipt' = Receipt("joinGame", c, w, a, ZeroAddress, TRUE)
           \/ EscrowReverted("joinGame", c, w, a, ZeroAddress)
    \/ \E c \in ContractIds, w \in Callers, winner \in EscrowWinners :
           \/ /\ EscrowDeclareWinner(c, w, winner)
              /\ receipt' = Receipt("declareWinner", c, w, 0, winner, TRUE)
           \/ EscrowReverted("declareWinner", c, w, 0, winner)
    \/ \E c \in ContractIds, w \in Callers :
           \/ /\ EscrowCancelGame(c, w)
              /\ receipt' = Receipt("cancelGame", c, w, 0, ZeroAddress, TRUE)
           \/ EscrowReverted("cancelGame", c, w, 0, ZeroAddress)
    \/ \E c \in ContractIds, w \in Callers :
           \/ /\ EscrowForceFinishTimedOutGame(c, w)
              /\ receipt' = Receipt("forceFinishTimedOutGame", c, w, 0, ZeroAddress, TRUE)
           \/ EscrowReverted("forceFinishTimedOutGame", c, w, 0, ZeroAddress)

NextEscrow == EscrowStep \/ Tick

SpecEscrow == Init /\ [][NextEscrow]_vars

\* The escrow contract holding several games at a time: the accounts create,
\* join, cancel and force-finish them in any order, the oracle declares any
\* result, the owner sets the commission and withdraws the fees, and time
\* passes in steps that let the game timeout run out.
EscrowIds == 1 .. MaxEscrowGames
CommissionInputs == {0, 1000, 1001}
Senders == Callers \cup {OwnerAccount}
FeeRecipients == {OracleAccount, ZeroAddress}

InitEscrowMany ==
    /\ balance = [u \in Users |-> ZeroBalance]
    /\ transactions = <<>>
    /\ games = <<>>
    /\ moves = <<>>
    /\ procs = [p \in AllProcs |-> Idle]
    /\ pre = NoSnapshot
    /\ escrow = [c \in EscrowIds |-> NoEscrowGame]
    /\ chain = <<>>
    /\ oracle = [pending |-> <<>>, isProcessing |-> FALSE, configured |-> TRUE]
    /\ evm = [EvmInit EXCEPT !.gameIdIndex = [c \in EscrowIds |-> 0]]
    /\ receipt = NoReceipt

EscrowManyStep ==
    \/ \E c \in EscrowIds, w \in Accounts, a \in BetAmounts : EscrowCreateGame(c, w, a)
    \/ \E c \in EscrowIds, w \in Accounts, a \in BetAmounts : EscrowJoinGame(c, w, a)
    \/ \E c \in EscrowIds, w \in Callers, winner \in EscrowWinners :
           EscrowDeclareWinner(c, w, winner)
    \/ \E c \in EscrowIds, w \in Callers : EscrowCancelGame(c, w)
    \/ \E c \in EscrowIds, w \in Callers : EscrowForceFinishTimedOutGame(c, w)
    \/ \E w \in Senders, bps \in CommissionInputs : EscrowSetCommission(w, bps)
    \/ \E w \in Senders, to \in FeeRecipients : EscrowWithdrawFees(w, to)
    \/ Elapse(gameTimeout + 1)

NextEscrowMany == EscrowManyStep /\ UNCHANGED receipt

SpecEscrowMany == InitEscrowMany /\ [][NextEscrowMany]_vars

\* Payment notifications: deposit requests that carry the payment
\* provider's id interleave at every awaited call; a notification may be
\* delivered again at any time, to the same user or not.
NotificationIds == {1, 2}

PayStep(p) ==
    \/ \E u \in Users, a \in DepositAmounts, c \in CurrencyInputs, e \in NotificationIds :
           DepositArrive(p, FALSE, u, a, c, e)
    \/ DepositCreate(p, FALSE)
    \/ DepositBalance(p, FALSE)

NextPay == \E p \in Procs : PayStep(p)

SpecPay == Init /\ [][NextPay]_vars

\* ------------------------------------------------------------------ claims
Quiescent == \A p \in Procs : procs[p].pc \in {"idle", "done"}

TxOfGame(gameId, types) ==
    SelectSeq(transactions, LAMBDA t : t.gameId = gameId /\ t.type \in types)

CompletedOf(userId, currency) ==
    SelectSeq(transactions, LAMBDA t :
        t.userId = userId /\ t.currency = currency /\ t.status = "COMPLETED")

\* a makeMove that returned after ending an internal-currency game
EndedInternalGame(p) ==
    /\ procs[p].pc = "done"
    /\ procs[p].op = "makeMove"
    /\ procs[p].result = "ok"
    /\ procs[p].req.isGameOver
    /\ procs[p].req.game.betCurrency # "CRYPTO_ETH"

\* C1: a game never has two settlements: at most one WIN row (one payout)
\* is ever recorded for a game id, whatever the interleaving of the
\* makeMove requests on it.
C1_AtMostOneSettlement ==
    \A g \in 1 .. Len(games) : Len(TxOfGame(g, {"WIN"})) <= 1

\* C2: when the makeMove that ends an internal-currency game with a winner
\* has returned, the winner's balance is its balance before that move (its
\* stake locked) plus 2*stake - commission, and the loser's balance is what
\* it was before that move.
C2_WinnerPayout ==
    \A p \in Procs :
        (EndedInternalGame(p) /\ procs[p].req.winnerId # NULL) =>
            LET g == procs[p].req.game
                f == BettingBalanceField(g.betCurrency)
                winner == procs[p].req.winnerId
                loser == IF winner = g.player1Id THEN g.player2Id ELSE g.player1Id
            IN  /\ balance[winner][f] =
                       pre.balance[winner][f] + (2 * g.betAmount) - Commission(g.betAmount)
                /\ balance[loser][f] = pre.balance[loser][f]

\* C3: when the makeMove that ends an internal-currency game as a draw has
\* returned, each player's balance is its balance before that move plus the
\* stake (the value before the stake was locked), and the game has no WIN
\* and no COMMISSION row.
C3_DrawRefund ==
    \A p \in Procs :
        (EndedInternalGame(p) /\ procs[p].req.winnerId = NULL) =>
            LET g == procs[p].req.game
                f == BettingBalanceField(g.betCurrency)
            IN  /\ balance[g.player1Id][f] = pre.balance[g.player1Id][f] + g.betAmount
                /\ balance[g.player2Id][f] = pre.balance[g.player2Id][f] + g.betAmount
                /\ TxOfGame(procs[p].req.gameId, {"WIN", "COMMISSION"}) = <<>>

\* C4 (the distribution of a finished game): between requests, the rows
\* that distribute a FINISHED game total 2*stake (WIN plus COMMISSION with a
\* winner, the two BET_RELEASED refunds on a draw); and once every game is
\* FINISHED, what the players hold plus the recorded commission is what
\* they deposited less what they withdrew: the games created no funds and
\* lost none.
Deposited(f) ==
    SumAmounts(SelectSeq(transactions, LAMBDA t :
        t.type \in {"DEPOSIT", "WITHDRAW"} /\ PaymentBalanceField(t.currency) = f))

CommissionTaken(f) ==
    SumAmounts(SelectSeq(transactions, LAMBDA t :
        t.type = "COMMISSION" /\ PaymentBalanceField(t.currency) = f))

RECURSIVE Held(_, _)
Held(us, f) ==
    IF us = {} THEN 0
    ELSE LET u == CHOOSE x \in us : TRUE IN balance[u][f] + Held(us \ {u}, f)

C4_GameFundsAccounted ==
    Quiescent =>
        /\ \A g \in 1 .. Len(games) :
               games[g].status = "FINISHED" =>
                   IF games[g].winnerId # NULL
                       THEN SumAmounts(TxOfGame(g, {"WIN", "COMMISSION"}))
                                = 2 * games[g].betAmount
                       ELSE SumAmounts(TxOfGame(g, {"BET_RELEASED"}))
                                = 2 * games[g].betAmount
        /\ (\A g \in 1 .. Len(games) : games[g].status = "FINISHED") =>
               \A f \in BalanceFields :
                   Held(Users, f) + CommissionTaken(f) = Deposited(f)

\* C5: between requests, every stored balance equals the sum of the user's
\* COMPLETED transactions in that currency.
C5_BalanceIsLedgerSum ==
    Quiescent =>
        \A u \in Users, c \in CurrencyInputs :
            balance[u][PaymentBalanceField(c)] = SumAmounts(CompletedOf(u, c))

\* C6: at most one joinGame or makeMove on a game id is between its read of
\* the Game row and its write of it.
C6_OneMutationPerGame ==
    \A p, q \in Procs :
        (/\ p # q
         /\ procs[p].pc \in {"jg_check", "jg_lockTx", "jg_lockBal", "jg_update",
                              "mm_createMove", "mm_update"}
         /\ procs[q].pc \in {"jg_check", "jg_lockTx", "jg_lockBal", "jg_update",
                              "mm_createMove", "mm_update"})
            => procs[p].gameId # procs[q].gameId

\* C7: no balance is ever negative.
C7_BalanceNeverNegative ==
    \A u \in Users, f \in BalanceFields : balance[u][f] >= 0

\* C8: once a game is FINISHED or CANCELLED, no step changes its status,
\* position or winner.
C8_TerminalIsFinal ==
    [][\A g \in 1 .. Len(games) :
          games[g].status \in {"FINISHED", "CANCELLED"} =>
              /\ games'[g].status = games[g].status
              /\ games'[g].fen = games[g].fen
              /\ games'[g].winnerId = games[g].winnerId]_vars

\* C9: the Move rows of a game carry the numbers 1..N, each once, N being
\* the number of rows.
C9_MoveNumbersDense ==
    \A g \in 1 .. Len(games) :
        \A i \in 1 .. Len(MovesOf(g)) : MovesOf(g)[i].moveNumber = i

\* C10: a createGame that has returned either failed with "Insufficient
\* balance" and left transactions, games and balances as it found them,
\* which happens exactly when the creator's balance in the currency was
\* below the stake; or it appended one BET_LOCKED row of -stake, took
\* exactly the stake off the creator's balance and created a
\* WAITING_PLAYER game at the starting position.
C10_CreateGame ==
    \A p \in Procs :
        (procs[p].pc = "done" /\ procs[p].op = "createGame") =>
            LET r == procs[p].req
                f == PaymentBalanceField(r.currency)
            IN  IF pre.balance[r.userId][f] < r.amount
                    THEN /\ procs[p].result = "Insufficient balance"
                         /\ balance = pre.balance
                         /\ Len(transactions) = pre.ntx
                         /\ Len(games) = pre.ngames
                    ELSE /\ procs[p].result = "ok"
                         /\ Len(transactions) = pre.ntx + 1
                         /\ transactions[Len(transactions)] =
                                Tx(r.userId, "BET_LOCKED", -r.amount, r.currency,
                                   "COMPLETED", NULL, NULL)
                         /\ balance = [pre.balance EXCEPT ![r.userId][f] = @ - r.amount]
                         /\ Len(games) = pre.ngames + 1
                         /\ games[Len(games)] = NewGame(r.userId, r.amount, r.currency)

\* the seats a user holds: games it created plus games it is second player of
Seats(u) ==
    Cardinality({g \in 1 .. Len(games) : games[g].player1Id = u})
        + Cardinality({g \in 1 .. Len(games) : games[g].player2Id = u})

LocksOf(u) ==
    Cardinality({i \in 1 .. Len(transactions) :
        transactions[i].type = "BET_LOCKED" /\ transactions[i].userId = u})

\* C11 (a stake is locked only for a seat): between requests, every user has
\* exactly one BET_LOCKED row per seat it holds; a joinGame that did not
\* make its user the second player of one more game has locked nothing.
C11_LockOnlyForSeat ==
    (\A p \in Procs : procs[p].pc = "idle") =>
        \A u \in Users : LocksOf(u) = Seats(u)

\* a makeMove that has returned, on a game that existed when it arrived
ReturnedMove(p) ==
    /\ procs[p].pc = "done"
    /\ procs[p].op = "makeMove"
    /\ procs[p].req.gameId <= pre.ngames

StoreAsFound ==
    /\ balance = pre.balance
    /\ Len(transactions) = pre.ntx
    /\ games = pre.games
    /\ Len(moves) = pre.nmoves

\* C12: a makeMove on a game that is not IN_PROGRESS, by a user who is not
\* the one to move (creator on white's turn, joiner on black's), or with a
\* move the rules engine refuses, returns the matching error and leaves
\* balances, transactions, games and moves as it found them.
C12_MakeMoveRejects ==
    \A p \in Procs :
        ReturnedMove(p) =>
            LET r == procs[p].req
                game == pre.games[r.gameId]
                expected == IF ChessTurn(game.fen) = "w" THEN game.player1Id
                                                         ELSE game.player2Id
            IN  /\ game.status # "IN_PROGRESS" =>
                       procs[p].result = "Game is not in progress" /\ StoreAsFound
                /\ (game.status = "IN_PROGRESS" /\ expected # r.userId) =>
                       procs[p].result = "Not your turn" /\ StoreAsFound
                /\ (game.status = "IN_PROGRESS" /\ expected = r.userId
                        /\ ~ChessMoveLegal(game.fen, r.kind)) =>
                       procs[p].result = "Invalid move: Invalid move" /\ StoreAsFound

\* an illegal move by the player to move, on a game in progress, has returned
C12_Witness ==
    \E p \in Procs :
        /\ ReturnedMove(p)
        /\ pre.games[procs[p].req.gameId].status = "IN_PROGRESS"
        /\ procs[p].req.kind = "illegal"
        /\ procs[p].req.userId =
               (IF ChessTurn(pre.games[procs[p].req.gameId].fen) = "w"
                    THEN pre.games[procs[p].req.gameId].player1Id
                    ELSE pre.games[procs[p].req.gameId].player2Id)

\* C13: in every state, the effects of releaseAndDistribute for a game are
\* all there or none is: two BET_RELEASED rows, one WIN row and one
\* COMMISSION row per run, with no run part-way through its writes.
C13_ReleaseAtomic ==
    \A g \in 1 .. Len(games) :
        /\ Len(TxOfGame(g, {"BET_RELEASED"})) = 2 * Len(TxOfGame(g, {"WIN"}))
        /\ Len(TxOfGame(g, {"COMMISSION"})) = Len(TxOfGame(g, {"WIN"}))
        /\ \A p \in Procs :
               (procs[p].pc \notin {"idle", "done"} /\ procs[p].op = "makeMove"
                    /\ procs[p].gameId = g)
                   => procs[p].pc \notin {"rd_win", "rd_commission", "rd_bal1",
                                          "rd_bal2", "rd_balW"}

\* p is inside a call of declareWinner
InDeclare(p) == procs[p].pc \in {"dw_read", "dw_submit", "dw_wait", "dw_updateDb"}

\* declareWinner has returned to its caller in p
DeclareReturned(p) == procs[p].pc \in {"eth_result", "pq_result"}

PreCheckPasses(contractGameId, winnerWallet) ==
    /\ escrow[contractGameId].player1 # ZeroAddress
    /\ escrow[contractGameId].state = "InProgress"
    /\ WinnerAddress(winnerWallet) \in {ZeroAddress, escrow[contractGameId].player1,
                                         escrow[contractGameId].player2}

\* C15: a call of declareWinner goes on to submit only from a read of the
\* escrow that found the record existing, InProgress and the winner the
\* zero address or a participant; on any other record the read step returns
\* a failure; and a transaction is submitted only by a call that passed
\* that read.
C15_SubmitsOnlyAfterPreCheck ==
    [][/\ \A p \in AllProcs :
             /\ (procs[p].pc = "dw_read" /\ procs'[p] # procs[p]) =>
                    IF PreCheckPasses(procs[p].contractGameId, procs[p].winnerWallet)
                        THEN \/ procs'[p].pc = "dw_submit"
                             \/ /\ DeclareReturned(p)'
                                /\ ~procs'[p].success
                                /\ procs'[p].error = "Failed to verify game in contract"
                        ELSE /\ DeclareReturned(p)'
                             /\ ~procs'[p].success
             /\ (procs'[p].pc = "dw_submit" /\ procs[p].pc # "dw_submit") =>
                    procs[p].pc = "dw_read"
       /\ chain' # chain =>
             \/ Len(chain') = Len(chain)
             \/ \E p \in AllProcs :
                    /\ procs[p].pc = "dw_submit"
                    /\ procs'[p].pc = "dw_wait"
                    /\ chain' = Append(chain,
                           [contractGameId |-> procs[p].contractGameId,
                            winner |-> WinnerAddress(procs[p].winnerWallet),
                            status |-> "pending"])]_vars

\* a call was turned away because its winner is no participant of the
\* escrow game, which is InProgress, and nothing was submitted
C15_Witness ==
    \E p \in AllProcs :
        /\ DeclareReturned(p)
        /\ procs[p].error = "Winner is not a player in this game"
        /\ escrow[procs[p].contractGameId].state = "InProgress"
        /\ chain = <<>>

\* C16: once a declaration for a game is confirmed, no later or overlapping
\* call of declareWinner for it succeeds: the escrow record of a Finished
\* game never changes again (no second transfer), a Game's finishTxHash,
\* once set, never changes, and a call returns success only for a game
\* whose finishTxHash was unset and whose escrow game has paid once.
C16_DeclareIdempotent ==
    [][/\ \A c \in ContractIds :
             escrow[c].state = "Finished" => escrow'[c] = escrow[c]
       /\ \A g \in 1 .. Len(games) :
             games[g].finishTxHash # NULL =>
                 games'[g].finishTxHash = games[g].finishTxHash
       /\ \A p \in AllProcs :
             (DeclareReturned(p)' /\ procs'[p] # procs[p] /\ procs'[p].success) =>
                 /\ games[procs[p].gameId].finishTxHash = NULL
                 /\ escrow[procs[p].contractGameId].payouts = 1]_vars

\* two calls for one game overlapped: one was confirmed and recorded, the
\* other's transaction reverted on the escrow, which paid once
C16_Witness ==
    \E p \in AllProcs :
        /\ DeclareReturned(p)
        /\ procs[p].error = "Transaction reverted"
        /\ games[procs[p].gameId].finishTxHash # NULL
        /\ games[procs[p].gameId].finishTxHash # procs[p].txHash
        /\ escrow[procs[p].contractGameId].payouts = 1

\* C17: when the declareWinner call of handleEthGameCompletion has returned
\* a failure, the step in which makeMove goes on leaves a PendingDeclaration
\* of the game in the retry queue, whether the game has a winner or is a
\* draw.
C17_FailureIsQueued ==
    [][\A p \in Procs :
          (/\ procs[p].pc = "eth_result"
           /\ ~procs[p].success
           /\ procs'[p].pc # "eth_result")
              => IndexOf(oracle'.pending, procs[p].gameId, 1) # 0]_vars

\* a retry made by the drain loop, after the failure that queued the
\* declaration, has been confirmed
RetrySucceeded ==
    /\ procs[OracleLoop].pc = "pq_result"
    /\ procs[OracleLoop].success

\* C18: a Game's finishTxHash is set only once a submission for it was
\* confirmed; and when a declaration that failed at first succeeds in a
\* retry of the drain loop, the Game carries that retry's transaction, the
\* escrow has paid the game once, and the internal ledger holds exactly one
\* settlement row (WIN) of the game.
C18_RetrySettlesOnce ==
    /\ \A g \in 1 .. Len(games) :
           games[g].finishTxHash # NULL =>
               /\ chain[games[g].finishTxHash].status = "success"
               /\ escrow[games[g].contractGameId].state = "Finished"
    /\ RetrySucceeded =>
           /\ games[procs[OracleLoop].gameId].finishTxHash = procs[OracleLoop].txHash
           /\ escrow[procs[OracleLoop].contractGameId].payouts = 1
           /\ Len(TxOfGame(procs[OracleLoop].gameId, {"WIN"})) = 1

\* C19: the drain loop attempts a queued declaration at most maxRetries
\* times, counting each attempt; a success removes the entry; a failure of
\* the attempt numbered maxRetries removes the entry, and the write that
\* follows it changes the stored Game, so that the give-up can be read from
\* the store.
C19_ExhaustedIsFlagged ==
    [][/\ \A i \in 1 .. Len(oracle.pending) : oracle.pending[i].attempts <= maxRetries
       /\ (procs[OracleLoop].pc = "pq_result" /\ procs'[OracleLoop] # procs[OracleLoop]
               /\ (procs[OracleLoop].success \/ procs[OracleLoop].attempts >= maxRetries))
              => IndexOf(oracle'.pending, procs[OracleLoop].gameId, 1) = 0
       /\ (procs[OracleLoop].pc = "pq_mark" /\ procs'[OracleLoop] # procs[OracleLoop])
              => games'[procs[OracleLoop].gameId] # games[procs[OracleLoop].gameId]]_vars

\* nothing is left to run: no request in flight, the drain loop ended, the
\* retry queue empty and no submitted transaction waiting to be mined
AtRest ==
    /\ \A p \in Procs : procs[p].pc \in {"idle", "done"}
    /\ procs[OracleLoop].pc = "idle"
    /\ oracle.pending = <<>>
    /\ \A h \in 1 .. Len(chain) : chain[h].status # "pending"

\* C20: no finished CRYPTO_ETH game is dropped.  When nothing is left to
\* run, every FINISHED game with a contract game id, won or drawn, has its
\* confirmed transaction recorded on the Game.  (The other outcome the
\* claim allows, the escalation, has no stored form: no column or row
\* records it.)
C20_FinishedIsNeverDropped ==
    AtRest =>
        \A g \in 1 .. Len(games) :
            (/\ games[g].status = "FINISHED"
             /\ games[g].betCurrency = "CRYPTO_ETH"
             /\ games[g].contractGameId # NULL)
                => games[g].finishTxHash # NULL

\* C21: at most one declareWinner submission is in flight at any time: no
\* two callers (makeMove through handleEthGameCompletion, the drain loop)
\* are at once between writeContract and the receipt.
InFlightDeclarations == {p \in AllProcs : procs[p].pc = "dw_wait"}

C21_SingleFlight == Cardinality(InFlightDeclarations) <= 1

\* C22: every stake locked by createGame or joinGame is released or
\* distributed in the end.  Stakes leave a game only in the completion branch
\* of the makeMove that finishes it, so once that request has returned a
\* FINISHED game must have its release or distribution rows: nothing that
\* runs later touches the stakes of a FINISHED game.
GameReleased(g) == TxOfGame(g, {"BET_RELEASED", "WIN"}) # <<>>

C22_LockedIsReleased ==
    Quiescent =>
        \A g \in 1 .. Len(games) :
            (games[g].status = "FINISHED" /\ games[g].betCurrency # "CRYPTO_ETH")
                => GameReleased(g)

\* C23: deposit notifications are recorded idempotently.  For every
\* external id at most one DEPOSIT row exists, and every balance is the sum
\* of the user's DEPOSIT rows less the credits still to be made by the
\* requests that wrote them (so no row is credited twice); a deposit whose
\* id is already in the ledger is never admitted past the lookup, and one
\* that finds it at the insert fails there, leaving rows and balances as
\* they were.
RowsOfNotification(e) ==
    {i \in 1 .. Len(transactions) : transactions[i].externalId = e}

DepositedTo(u, f) ==
    SumAmounts(SelectSeq(transactions, LAMBDA t :
        t.type = "DEPOSIT" /\ t.userId = u /\ PaymentBalanceField(t.currency) = f))

RECURSIVE CreditsDue(_, _, _)
CreditsDue(ps, u, f) ==
    IF ps = {} THEN 0
    ELSE LET p == CHOOSE x \in ps : TRUE
             due == IF /\ procs[p].pc = "dep_balance"
                       /\ procs[p].userId = u
                       /\ PaymentBalanceField(procs[p].currency) = f
                        THEN procs[p].amount ELSE 0
         IN  due + CreditsDue(ps \ {p}, u, f)

C23_RecordedOnce ==
    /\ \A e \in NotificationIds : Cardinality(RowsOfNotification(e)) <= 1
    /\ \A u \in Users, f \in BalanceFields :
           balance[u][f] + CreditsDue(Procs, u, f) = DepositedTo(u, f)

C23_RepeatFails ==
    \A p \in Procs :
        /\ (procs[p].pc = "idle" /\ procs'[p].pc = "dep_create") =>
               RowsOfNotification(procs'[p].externalId) = {}
        /\ (procs[p].pc = "dep_create" /\ procs'[p] # procs[p]
                /\ RowsOfNotification(procs[p].externalId) # {}) =>
               /\ procs'[p] = Idle
               /\ transactions' = transactions
               /\ balance' = balance

C23_DepositIdempotent == []C23_RecordedOnce /\ [][C23_RepeatFails]_vars

\* the notification of a deposit already recorded and credited is being
\* processed again by a request that passed the lookup before the row was
\* written
C23_Witness ==
    \E p \in Procs :
        /\ procs[p].pc = "dep_create"
        /\ \A q \in Procs : procs[q].pc # "dep_balance"
        /\ \E i \in RowsOfNotification(procs[p].externalId) :
               /\ transactions[i].userId = procs[p].userId
               /\ balance[procs[p].userId][PaymentBalanceField(transactions[i].currency)]
                      >= transactions[i].amount

\* C24: the transaction ledger is append-only: every step leaves every row
\* that existed in place with every field unchanged, status included.
C24_LedgerAppendOnly ==
    [][/\ Len(transactions') >= Len(transactions)
       /\ \A i \in 1 .. Len(transactions) : transactions'[i] = transactions[i]]_vars

\* a step in which the escrow's function fn was called
EscrowCalled(fn) ==
    /\ receipt' # receipt \/ escrow' # escrow
    /\ receipt'.fn = fn

\* the other accounts' ETH and the kept fees are as they were
OnlyPaid(accounts) ==
    /\ evm'.accumulatedFees = evm.accumulatedFees
    /\ \A a \in Callers \ accounts : evm'.wei[a] = evm.wei[a]

\* C25: ChessEscrow.declareWinner succeeds only when the caller is the
\* oracle account, the game exists and is InProgress, and the winner is
\* address(0) or one of the two players; a call that violates one of these
\* reverts and leaves the games, the kept fees and every ETH balance as
\* they were.
DeclareWinnerAllowed(r) ==
    /\ r.sender = OracleAccount
    /\ escrow[r.gameId].player1 # ZeroAddress
    /\ escrow[r.gameId].state = "InProgress"
    /\ r.winner \in {ZeroAddress, escrow[r.gameId].player1, escrow[r.gameId].player2}

C25_DeclareWinnerGuarded ==
    [][EscrowCalled("declareWinner") =>
           /\ receipt'.ok => DeclareWinnerAllowed(receipt')
           /\ ~DeclareWinnerAllowed(receipt') =>
                  /\ ~receipt'.ok
                  /\ escrow' = escrow
                  /\ evm' = evm]_vars

\* a player of a game in progress has called declareWinner naming itself,
\* and the call reverted
C25_Witness ==
    /\ receipt.fn = "declareWinner"
    /\ ~receipt.ok
    /\ escrow[receipt.gameId].state = "InProgress"
    /\ receipt.sender = escrow[receipt.gameId].player2
    /\ receipt.winner = receipt.sender
    /\ evm.wei[EscrowAddress] = 2 * escrow[receipt.gameId].betAmount

\* C26: ChessEscrow.cancelGame succeeds only for a game in WaitingForPlayer,
\* called by its creator or, once createdAt + joinTimeout has passed, by any
\* account; a call that succeeds makes the game Cancelled and pays exactly
\* betAmount to the creator; once the join timeout has passed, joinGame on
\* the game reverts.
C26_CancelGuarded ==
    [][/\ (EscrowCalled("cancelGame") /\ receipt'.ok) =>
              LET r == receipt'
                  g == escrow[r.gameId]
              IN  /\ g.player1 # ZeroAddress
                  /\ g.state = "WaitingForPlayer"
                  /\ \/ r.sender = g.player1
                     \/ evm.timestamp > g.createdAt + joinTimeout
                  /\ escrow' = [escrow EXCEPT ![r.gameId].state = "Cancelled"]
                  /\ evm'.wei[g.player1] = evm.wei[g.player1] + g.betAmount
                  /\ evm'.wei[EscrowAddress] = evm.wei[EscrowAddress] - g.betAmount
                  /\ OnlyPaid({g.player1})
       /\ (/\ EscrowCalled("joinGame")
           /\ escrow[receipt'.gameId].player1 # ZeroAddress
           /\ evm.timestamp > escrow[receipt'.gameId].createdAt + joinTimeout) =>
              /\ ~receipt'.ok
              /\ escrow' = escrow
              /\ evm' = evm]_vars

\* an expired game was cancelled by an account that did not create it, and
\* the creator has its stake back
C26_Witness ==
    /\ receipt.fn = "cancelGame"
    /\ receipt.ok
    /\ escrow[receipt.gameId].state = "Cancelled"
    /\ receipt.sender # escrow[receipt.gameId].player1
    /\ evm.wei[escrow[receipt.gameId].player1] = InitialDeposit
    /\ evm.wei[EscrowAddress] = 0

\* C27: ChessEscrow.forceFinishTimedOutGame succeeds only for a game that is
\* InProgress and past createdAt + gameTimeout; a call that succeeds makes
\* the game Cancelled and pays exactly betAmount to each player, and no
\* commission is kept; before the timeout no account can force-finish a
\* game in progress.
C27_ForceFinishGuarded ==
    [][EscrowCalled("forceFinishTimedOutGame") =>
           LET r == receipt'
               g == escrow[r.gameId]
           IN  /\ receipt'.ok =>
                      /\ g.player1 # ZeroAddress
                      /\ g.state = "InProgress"
                      /\ evm.timestamp > g.createdAt + gameTimeout
                      /\ escrow' = [escrow EXCEPT ![r.gameId].state = "Cancelled"]
                      /\ evm'.wei[g.player1] = evm.wei[g.player1] + g.betAmount
                      /\ evm'.wei[g.player2] = evm.wei[g.player2] + g.betAmount
                      /\ evm'.wei[EscrowAddress] = evm.wei[EscrowAddress] - 2 * g.betAmount
                      /\ OnlyPaid({g.player1, g.player2})
               /\ (g.state = "InProgress" /\ evm.timestamp <= g.createdAt + gameTimeout) =>
                      /\ ~receipt'.ok
                      /\ escrow' = escrow
                      /\ evm' = evm]_vars

\* a game in progress past the game timeout was force-finished, and both
\* players have their stakes back
C27_Witness ==
    /\ receipt.fn = "forceFinishTimedOutGame"
    /\ receipt.ok
    /\ escrow[receipt.gameId].state = "Cancelled"
    /\ escrow[receipt.gameId].player2 # ZeroAddress
    /\ evm.wei[escrow[receipt.gameId].player1] = InitialDeposit
    /\ evm.wei[escrow[receipt.gameId].player2] = InitialDeposit
    /\ evm.accumulatedFees = 0

\* C28: a balance-mutating request whose currency is not recognised by the
\* mapping the operation consults (the switch of checkBalance for
\* createGame and withdraw, getBalanceField of the payment service for
\* deposit) fails with an error that is not the insufficient-funds error,
\* and leaves transactions and balances as it found them.
CurrencyUnrecognised(op, currency) ==
    IF op = "deposit"
        THEN PaymentBalanceField(currency) = "undefined"
        ELSE BettingBalanceField(currency) = "undefined"

C28_UnknownCurrencyRejected ==
    \A p \in Procs :
        (/\ procs[p].pc = "done"
         /\ procs[p].op \in {"createGame", "withdraw", "deposit"}
         /\ CurrencyUnrecognised(procs[p].op, procs[p].req.currency)) =>
            /\ procs[p].result \notin {"ok", "Insufficient balance"}
            /\ balance = pre.balance
            /\ Len(transactions) = pre.ntx

\* C29: every game that is IN_PROGRESS or FINISHED has a second player, who
\* is not its creator, whichever handler (joinGame, joinEthGame) started it.
C29_TwoDistinctPlayers ==
    \A g \in 1 .. Len(games) :
        games[g].status \in {"IN_PROGRESS", "FINISHED"} =>
            /\ games[g].player2Id # NULL
            /\ games[g].player2Id # games[g].player1Id

\* C30: a settlement failure is not reported as a game failure.  A makeMove
\* that recorded a terminal move (one more Move row, the game FINISHED)
\* returns success whatever became of the settlement; and a makeMove that
\* returns an error has added no Move row and left the game's position and
\* status as they were.
C30_SettlementFailureHidden ==
    \A p \in Procs :
        ReturnedMove(p) =>
            LET g == procs[p].req.gameId
            IN  /\ (/\ pre.games[g].status = "IN_PROGRESS"
                    /\ games[g].status = "FINISHED"
                    /\ Len(moves) = pre.nmoves + 1) =>
                       procs[p].result = "ok"
                /\ procs[p].result # "ok" =>
                       /\ Len(moves) = pre.nmoves
                       /\ games[g].fen = pre.games[g].fen
                       /\ games[g].status = pre.games[g].status

\* C31: the stake amount, the stake currency, the creator and the contract
\* game id of a Game never change after its creation: every step leaves
\* them as they are in every existing row, and no row disappears.
GameFrame(g) ==
    <<games[g].betAmount, games[g].betCurrency, games[g].player1Id,
      games[g].contractGameId>>

AcceptedMove(p) == ReturnedMove(p) /\ procs[p].result = "ok"

WinnerAsDetermined(p) ==
    LET r == procs[p].req
        g == r.gameId
        fen == ChessMove(pre.games[g].fen, r.kind)
    IN  /\ games[g].fen = fen
        /\ IF ChessIsCheckmate(fen)
               THEN /\ games[g].status = "FINISHED"
                    /\ games[g].winnerId = r.userId
                    /\ games[g].winnerId = (IF ChessTurn(fen) = "b"
                                                THEN games[g].player1Id
                                                ELSE games[g].player2Id)
           ELSE IF ChessIsGameOver(fen)
               THEN games[g].status = "FINISHED" /\ games[g].winnerId = NULL
           ELSE games[g].status = "IN_PROGRESS" /\ games[g].winnerId = NULL

C32_TerminalMoveSettles ==
    \A p \in Procs :
        AcceptedMove(p) =>
            /\ WinnerAsDetermined(p)
            /\ games[procs[p].req.gameId].status = "FINISHED" =>
                   GameReleased(procs[p].req.gameId)


\* C33: pending declarations survive a process restart.  A declaration that
\* is queued when the process restarts (not yet succeeded, not yet exhausted)
\* is still queued after the restart.
QueuedGames(o) == {o.pending[k].gameId : k \in 1 .. Len(o.pending)}

C33_PendingSurvivesRestart ==
    [][Restart => QueuedGames(oracle) \subseteq QueuedGames(oracle')]_vars


\* C34: the commission of a finished game is never recorded against either
\* of its two players: no COMMISSION row carries the id of the creator or
\* of the joiner of the game it belongs to.
C34_CommissionNotOnPlayers ==
    \A k \in 1 .. Len(transactions) :
        LET t == transactions[k]
        IN  t.type = "COMMISSION" =>
                t.userId \notin {games[t.gameId].player1Id, games[t.gameId].player2Id}


\* C35: the ETH held by the escrow contract is what its books say: the stake
\* of every game in WaitingForPlayer, twice the stake of every game in
\* InProgress, and the accumulated fees -- after every sequence of createGame,
\* joinGame, declareWinner, cancelGame, forceFinishTimedOutGame, setCommission
\* and withdrawFees.  So a win pays winnings and books a commission that add
\* up to the pot, and withdrawFees pays out no stake.
EscrowHeld(g) ==
    IF g.state = "WaitingForPlayer" /\ g.player1 # ZeroAddress THEN g.betAmount
    ELSE IF g.state = "InProgress" THEN 2 * g.betAmount
    ELSE 0

RECURSIVE SumHeld(_)
SumHeld(n) == IF n = 0 THEN 0 ELSE EscrowHeld(escrow[n]) + SumHeld(n - 1)

C35_EscrowSolvent ==
    evm.wei[EscrowAddress] = SumHeld(Cardinality(DOMAIN escrow)) + evm.accumulatedFees

C35_Witness ==
    /\ evm.accumulatedFees = 0
    /\ evm.wei[OracleAccount] > InitialDeposit
    /\ evm.commissionBps # commissionBps
    /\ \E c \in DOMAIN escrow : escrow[c].state = "Finished" /\ escrow[c].winner # ZeroAddress
    /\ \E c \in DOMAIN escrow : escrow[c].state = "InProgress"


\* C38: activeGameIds holds exactly the ids of the games in WaitingForPlayer
\* or InProgress, each once, and gameIdIndex maps each of them to its slot
\* in the array, whatever the order in which the games were created and
\* finished or cancelled.
ActiveGames ==
    {c \in DOMAIN escrow : /\ escrow[c].player1 # ZeroAddress
                           /\ escrow[c].state \in {"WaitingForPlayer", "InProgress"}}

C38_ActiveListExact ==
    /\ {evm.activeGameIds[k] : k \in 1 .. Len(evm.activeGameIds)} = ActiveGames
    /\ Len(evm.activeGameIds) = Cardinality(ActiveGames)
    /\ \A k \in 1 .. Len(evm.activeGameIds) :
           evm.gameIdIndex[evm.activeGameIds[k]] = k - 1

C38_Witness ==
    /\ escrow[1].state \in {"Finished", "Cancelled"}
    /\ evm.activeGameIds = <<3, 2>>
    /\ escrow[2].state = "InProgress"
    /\ escrow[3].state = "WaitingForPlayer"


\* C36: an escrow game is settled once.  Only a successful declareWinner,
\* cancelGame or forceFinishTimedOutGame moves a game to Finished or
\* Cancelled; from then on its state, winner and every other field stay as
\* they are, and every createGame, joinGame, declareWinner, cancelGame and
\* forceFinishTimedOutGame on its id reverts and moves no ETH.
EscrowSettled(g) == g.state \in {"Finished", "Cancelled"}

C36_SettledOnce ==
    [][\A c \in ContractIds :
           /\ EscrowSettled(escrow[c]) =>
                  /\ escrow'[c] = escrow[c]
                  /\ (/\ receipt'.gameId = c
                      /\ receipt' # receipt \/ escrow' # escrow \/ evm'.wei # evm.wei)
                         => /\ ~receipt'.ok
                            /\ evm'.wei = evm.wei
                            /\ evm'.accumulatedFees = evm.accumulatedFees
           /\ (~EscrowSettled(escrow[c]) /\ EscrowSettled(escrow'[c])) =>
                  /\ receipt'.ok
                  /\ receipt'.gameId = c
                  /\ receipt'.fn \in {"declareWinner", "cancelGame",
                                      "forceFinishTimedOutGame"}]_vars

C36_Witness ==
    /\ receipt.fn = "createGame"
    /\ ~receipt.ok
    /\ receipt.value \in BetAmounts
    /\ escrow[receipt.gameId].state = "Finished"
    /\ escrow[receipt.gameId].winner # ZeroAddress
    /\ evm.wei[receipt.sender] >= receipt.value


\* C37: a queued declaration is never stranded.  Whenever
\* pendingDeclarations is non-empty a drain loop is running; isProcessing is
\* true exactly while the one drain loop is alive, so a second loop is never
\* started beside it; and with fair scheduling, every declareWinner call
\* returning, the map is emptied and the loop ends with isProcessing false.
LoopRunning == procs[OracleLoop].pc # "idle"

OutsiderMove(p) ==
    /\ ReturnedMove(p)
    /\ procs[p].req.userId \notin {pre.games[procs[p].req.gameId].player1Id,
                                   pre.games[procs[p].req.gameId].player2Id}

C39_OutsiderCannotMove ==
    \A p \in Procs :
        OutsiderMove(p) =>
            /\ procs[p].result \in {"Game is not in progress", "Not your turn"}
            /\ StoreAsFound

C39_Witness ==
    \E p \in Procs :
        /\ OutsiderMove(p)
        /\ procs[p].req.userId = Stranger
        /\ procs[p].req.kind = "mate"
        /\ pre.games[procs[p].req.gameId].status = "IN_PROGRESS"
        /\ pre.games[procs[p].req.gameId].fen.ply = 1

====
